---- MODULE Spec2Model ----
(***************************************************************************)
(* A state-machine model of CellManager (src/cell_manager.cpp): the host   *)
(* side of the GPU cell simulation -- the count pair and its staging       *)
(* mirror, the triple-buffered cell store, the addition queue, host        *)
(* ingress, the per-frame driver updateCells with its dispatches and       *)
(* barriers, and resetSimulation.                                          *)
(*                                                                         *)
(* The compute kernels (shaders/*.comp), cell_manager.h and config.h are   *)
(* not part of src/; what a kernel does with the buffers the host binds is *)
(* modelled from spec.md (sections 4.2 - 4.6) and named so at each         *)
(* definition.  The host code is modelled from the source line by line.    *)
(*                                                                         *)
(* A frame is a sequence of steps of the one host thread (pc); no other    *)
(* host operation runs while pc # "idle".  The threads of the internal     *)
(* stage and of the addition apply are separate steps, taken in any order. *)
(* glCopyNamedBufferSubData into the staging mirror is modelled as         *)
(* complete when the host next reads countPtr.                             *)
(***************************************************************************)
EXTENDS Integers, Sequences, FiniteSets, TLC

(* ---------------------------------------------------------------- bounds *)

\* config::MAX_CELLS, scaled down (config.h is not in src/).
MAX_CELLS == 4

\* Records created (host-authored or children) in one run: ids 1..MaxId.
MaxId == 4

\* Host-authored records waiting at once (staged on the host plus counted by
\* the device pendingCount) in the runs the model explores.
MaxQueued == 3

\* Largest batch a direct addCellsToGPUBuffer call is given.
MaxBatch == 2

\* Cells that ever exist in the program of the drag tool (SpecDrag).
MaxDragId == 2

\* config::GRID_RESOLUTION (R), scaled down: R^3 voxels, more than the
\* threads of one workgroup.
GRID_RESOLUTION == 5

\* config::MAX_CELLS_PER_GRID (K), scaled down.
MAX_CELLS_PER_GRID == 2

\* Cells that ever exist in the program of the grid (SpecGrid): one more
\* than a voxel holds.
MaxGridId == 3

\* Cells the host authors where cells carry a split timer.
MaxTimedId == 3

(* ------------------------------------------------------------- constants *)

\* Threads per workgroup: the 64 of (n + 63) / 64.
WorkgroupSize == 64

\* Number of cell buffers in the rotation.
NumCellBuffers == 3

(* ------------------------------------------------------------- data model *)

\* A cell record.  id identifies the record (0: a zero-filled slot).
Cell == [id : 0..MaxId]

ZeroCell == [id |-> 0]

\* cellAdditionBuffer holds MAX_CELLS * sizeof(ComputeCell) / 2 bytes.
QueueCapacity == MAX_CELLS \div 2

CellSlots == 0..(MAX_CELLS - 1)

QueueSlots == 0..(QueueCapacity - 1)

ClearedCellBuffer == [i \in CellSlots |-> ZeroCell]

ClearedQueue == [j \in QueueSlots |-> ZeroCell]

Min(a, b) == IF a <= b THEN a ELSE b

Range(s) == {s[i] : i \in 1..Len(s)}

VARIABLES
  \* device
  cellBuffer,            \* cellBuffer[0..2]: the three cell stores
  cellAdditionBuffer,    \* the addition queue
  gpuCellCountBuffer,    \* [live, pending]: the device count pair
  stagingCellCountBuffer,\* [live, pending]: the host-mapped mirror (countPtr)
  \* host
  cellCount,
  gpuPendingCellCount,
  cpuPendingCellCount,
  cellStagingBuffer,
  bufferRotation,
  cpuCells,              \* the host's copy of the cell records
  selectedCell,          \* [isValid, cellIndex]: the selection of the drag tool
  isDraggingCell,
  modeBuffer,            \* the mode table: the modes uploaded at offset 0
  gridBuffer,            \* the indices of the grid: K slots for every voxel
  gridCountBuffer,       \* count[v]
  gridOffsetBuffer,      \* offset[v]
  instanceBuffer,        \* the instances the extract kernel wrote
  \* control
  pc,                    \* position of the host thread inside updateCells
  todo,                  \* threads of the running dispatch that have not run
  \* history (read by the properties only)
  events,                \* dispatches, barriers and host writes of the frame
                         \* that runs or has just returned
  frame,                 \* counts observed at the points of that frame
  admitted,              \* <<index, record>> written by the last apply
  writeHist,             \* write views of the last three frames (SpecRot)
  resetHist,             \* the same, restarted by resetSimulation (SpecRot)
  lastUpload,            \* the upload waiting in the queue, as it was made
  nextId                 \* next fresh record id (no record survives a reset)

vars == <<cellBuffer, cellAdditionBuffer, gpuCellCountBuffer,
          stagingCellCountBuffer, cellCount, gpuPendingCellCount,
          cpuPendingCellCount, cellStagingBuffer, bufferRotation, pc, todo,
          events, frame, admitted, writeHist, resetHist, lastUpload, nextId,
          cpuCells, selectedCell, isDraggingCell, modeBuffer, gridBuffer,
          gridCountBuffer, gridOffsetBuffer, instanceBuffer>>

deviceVars == <<cellBuffer, cellAdditionBuffer, gpuCellCountBuffer,
                stagingCellCountBuffer>>

hostVars == <<cellCount, gpuPendingCellCount, cpuPendingCellCount,
              cellStagingBuffer, bufferRotation>>

\* The drag tool's state and the mode table.
toolVars == <<selectedCell, isDraggingCell, modeBuffer>>

\* The buffers of the spatial grid.
gridVars == <<gridBuffer, gridCountBuffer, gridOffsetBuffer>>

(* ------------------------------------------------------- buffer rotation *)

\* cell_manager.h: the read view is cellBuffer[bufferRotation].
getCellReadBuffer(r) == r

\* cell_manager.h: the write view is the next buffer of the rotation.
getCellWriteBuffer(r) == (r + 1) % NumCellBuffers

\* cell_manager.h: rotateBuffers advances the rotation by one.
rotateBuffers(r) == (r + 1) % NumCellBuffers

CellBufferName(i) ==
  CASE i = 0 -> "cellBuffer0"
    [] i = 1 -> "cellBuffer1"
    [] OTHER -> "cellBuffer2"

CellBufferNames == {CellBufferName(i) : i \in 0..(NumCellBuffers - 1)}

CellBufferIndex(name) == CHOOSE i \in 0..(NumCellBuffers - 1) : CellBufferName(i) = name

(* ------------------------------ dispatches: what the host binds, per stage *)

\* An event of a frame: a dispatch (with its bindings, by binding point), a
\* glMemoryBarrier, or a host write / copy of a buffer.
Dispatch(op, bind) == [op |-> op, bind |-> bind]

Barrier == [op |-> "barrier", bind |-> <<>>]

HostOp(op, bufs) == [op |-> op, bind |-> bufs]

runGridClearBindings == <<"gridCountBuffer">>

runGridAssignBindings(r) ==
  <<CellBufferName(getCellReadBuffer(r)), "gridCountBuffer", "gpuCellCountBuffer">>

\* Faulty variant: the scan in place, offset[] written over count[].
runGridPrefixSumBindings_InPlace == <<"gridCountBuffer", "gridCountBuffer">>

runGridPrefixSumBindings == <<"gridCountBuffer", "gridOffsetBuffer">>

runGridInsertBindings(r) ==
  <<CellBufferName(getCellReadBuffer(r)), "gridBuffer", "gridOffsetBuffer",
    "gridCountBuffer", "gpuCellCountBuffer">>

\* Faulty variant: binding 3 is the read view, the kernel writes in place.
runPhysicsComputeBindings_InPlace(r) ==
  <<CellBufferName(getCellReadBuffer(r)), "gridBuffer", "gridCountBuffer",
    CellBufferName(getCellReadBuffer(r)), "gpuCellCountBuffer">>

runPhysicsComputeBindings(r) ==
  <<CellBufferName(getCellReadBuffer(r)), "gridBuffer", "gridCountBuffer",
    CellBufferName(getCellWriteBuffer(r)), "gpuCellCountBuffer">>

runUpdateComputeBindings(r) ==
  <<CellBufferName(getCellWriteBuffer(r)), "gpuCellCountBuffer">>

runInternalUpdateComputeBindings(r) ==
  <<"modeBuffer", CellBufferName(getCellWriteBuffer(r)), "cellAdditionBuffer",
    "gpuCellCountBuffer">>

\* Faulty variant: binding 2 is the buffer that is neither view.
applyCellAdditionsBindings_ThirdBuffer(r) ==
  <<"cellAdditionBuffer", CellBufferName(getCellReadBuffer(r)),
    CellBufferName((getCellWriteBuffer(r) + 1) % NumCellBuffers),
    "gpuCellCountBuffer">>

\* Faulty variant: the read view bound twice, the write view not at all.
applyCellAdditionsBindings_ReadTwice(r) ==
  <<"cellAdditionBuffer", CellBufferName(getCellReadBuffer(r)),
    CellBufferName(getCellReadBuffer(r)), "gpuCellCountBuffer">>

applyCellAdditionsBindings(r) ==
  <<"cellAdditionBuffer", CellBufferName(getCellReadBuffer(r)),
    CellBufferName(getCellWriteBuffer(r)), "gpuCellCountBuffer">>

\* The binding points a kernel reads and writes (1-based positions in the
\* binding tuple), from the stage descriptions of spec.md 4.2 - 4.6.
KernelReads(op) ==
  CASE op = "clear"     -> {}
    [] op = "assign"    -> {1, 2, 3}
    [] op = "prefixSum" -> {1}
    [] op = "insert"    -> {1, 3, 4, 5}
    [] op = "physics"   -> {1, 2, 3, 5}
    [] op = "update"    -> {1, 2}
    [] op = "internal"  -> {1, 2, 4}
    [] op = "apply"     -> {1, 4}
    [] OTHER            -> {}

KernelWrites(op) ==
  CASE op = "clear"     -> {1}
    [] op = "assign"    -> {2}
    [] op = "prefixSum" -> {2}
    [] op = "insert"    -> {2}
    [] op = "physics"   -> {4}
    [] op = "update"    -> {1}
    [] op = "internal"  -> {2, 3, 4}
    [] op = "apply"     -> {2, 3, 4}
    [] OTHER            -> {}

DispatchOps == {"clear", "assign", "prefixSum", "insert", "physics", "update",
                "internal", "apply"}

\* Host writes through the GL API (glNamedBufferSubData, glCopyNamedBufferSubData).
HostWriteOps == {"upload", "zeroPending", "copyCount"}

Reads(e) ==
  IF e.op \in DispatchOps THEN {e.bind[b] : b \in KernelReads(e.op)}
  ELSE IF e.op = "copyCount" THEN {"gpuCellCountBuffer"}
  ELSE {}

Writes(e) ==
  IF e.op \in DispatchOps THEN {e.bind[b] : b \in KernelWrites(e.op)}
  ELSE IF e.op = "copyCount" THEN {"stagingCellCountBuffer"}
  ELSE IF e.op \in HostWriteOps THEN Range(e.bind)
  ELSE {}

\* Threads of a dispatch of (n + 63) / 64 groups of 64.
DispatchThreads(n) == ((n + WorkgroupSize - 1) \div WorkgroupSize) * WorkgroupSize

(* ------------------------------------------------------------------ Init *)

\* What is recorded of a frame: the device counts when it begins, the records
\* in the staging vector then (staged), the device pendingCount after the
\* host upload (hostQueued), the divisions queued by the internal stage, the
\* device counts when the apply is dispatched.
NoFrame == [liveStart |-> 0, pendStart |-> 0, staged |-> 0, hostQueued |-> 0,
            divisions |-> 0, liveBeforeApply |-> 0, pendBeforeApply |-> 0,
            done |-> FALSE]

\* clearSelection lines 996 - 997: cellIndex = -1, isValid = false.
NoSelection == [isValid |-> FALSE, cellIndex |-> -1]

\* The mode table before any genome is uploaded.
\* The mode table: MAX_CELLS mode slots (lines 176 - 181), all zero.
ModeSlots == 0..(MAX_CELLS - 1)

ZeroMode == [splitInterval |-> 0, childModes |-> <<0, 0>>]

NoModes == [m \in ModeSlots |-> ZeroMode]

NoUpload == [offset |-> 0, devicePending |-> 0, count |-> 0, oob |-> FALSE]

\* A zero-filled buffer of unsigned integers, held as the function from its
\* non-zero elements to their values: At reads an element, Put writes one.
ZeroFilled == [j \in {} |-> 0]

At(buf, j) == IF j \in DOMAIN buf THEN buf[j] ELSE 0

Put(buf, j, x) ==
  [n \in (IF x = 0 THEN DOMAIN buf \ {j} ELSE DOMAIN buf \cup {j}) |->
     IF n = j THEN x ELSE buf[n]]

\* The instance buffer: one instance for every cell slot, zero-filled.
NoInstances == [i \in CellSlots |-> 0]

\* The state after the constructor: buffers allocated and empty, counts 0.
Init ==
  /\ cellBuffer = [b \in 0..(NumCellBuffers - 1) |-> ClearedCellBuffer]
  /\ cellAdditionBuffer = ClearedQueue
  /\ gpuCellCountBuffer = [live |-> 0, pending |-> 0]
  /\ stagingCellCountBuffer = [live |-> 0, pending |-> 0]
  /\ cellCount = 0
  /\ gpuPendingCellCount = 0
  /\ cpuPendingCellCount = 0
  /\ cellStagingBuffer = <<>>
  /\ bufferRotation = 0
  /\ pc = "idle"
  /\ todo = {}
  /\ events = <<>>
  /\ frame = NoFrame
  /\ admitted = {}
  /\ writeHist = <<>>
  /\ resetHist = <<>>
  /\ lastUpload = NoUpload
  /\ nextId = 1
  /\ cpuCells = <<>>
  /\ selectedCell = NoSelection
  /\ isDraggingCell = FALSE
  /\ modeBuffer = NoModes
  /\ gridBuffer = ZeroFilled
  /\ gridCountBuffer = ZeroFilled
  /\ gridOffsetBuffer = ZeroFilled
  /\ instanceBuffer = NoInstances

(* ---------------------------------------------------------- host ingress *)

\* The admission test of addCellsToGPUBuffer.
AdmitsBatch(count, n) == ~(count + n > MAX_CELLS)

\* Faulty variant: every upload at the start of the queue.
UploadOffset_Zero(hostPending, devicePending) == 0

\* The queue offset (in records) addCellsToGPUBuffer uploads at.
UploadOffset(hostPending, devicePending) == hostPending

\* addCellsToGPUBuffer(cells) on host count `count`, host pending count `pend`,
\* queue `q` and device pair `dev`: the values it leaves.  glNamedBufferSubData
\* with a range that does not fit the buffer raises GL_INVALID_VALUE and writes
\* nothing; the counter update that follows is still made.
addCellsToGPUBuffer(cells, count, pend, q, dev) ==
  LET n == Len(cells)
      off == UploadOffset(pend, dev.pending)
      fits == off + n <= QueueCapacity
      q2 == IF fits
            THEN [j \in QueueSlots |->
                    IF j >= off /\ j < off + n THEN cells[j - off + 1] ELSE q[j]]
            ELSE q
      dev2 == [dev EXCEPT !.pending = pend + n]
  IN IF ~AdmitsBatch(count, n)
     THEN [accepted |-> FALSE, pend |-> pend, queue |-> q, dev |-> dev,
           upload |-> NoUpload]
     ELSE [accepted |-> TRUE, pend |-> pend + n, queue |-> q2, dev |-> dev2,
           upload |-> [offset |-> off, devicePending |-> dev.pending,
                       count |-> n, oob |-> ~fits]]

\* Records staged on the host or counted by the device pendingCount.
Waiting == Len(cellStagingBuffer) + gpuCellCountBuffer.pending

FreshCells(n) == [i \in 1..n |-> [id |-> nextId + i - 1]]

\* A direct call of addCellsToGPUBuffer / addCellToGPUBuffer between frames.
AddCellsToGPUBuffer ==
  /\ UNCHANGED <<cpuCells, toolVars, gridVars, instanceBuffer>>
  /\ pc = "idle"
  /\ \E n \in 1..MaxBatch :
       /\ nextId + n - 1 <= MaxId
       /\ Waiting + n <= MaxQueued
       /\ LET r == addCellsToGPUBuffer(FreshCells(n), cellCount,
                                       gpuPendingCellCount, cellAdditionBuffer,
                                       gpuCellCountBuffer)
          IN /\ cellAdditionBuffer' = r.queue
             /\ gpuPendingCellCount' = r.pend
             /\ gpuCellCountBuffer' = r.dev
             /\ stagingCellCountBuffer' =
                  IF r.accepted THEN r.dev ELSE stagingCellCountBuffer
             /\ lastUpload' = IF r.accepted THEN r.upload ELSE lastUpload
             /\ nextId' = IF r.accepted THEN nextId + n ELSE nextId
  /\ events' = <<>>
  /\ frame' = NoFrame
  /\ UNCHANGED <<cellBuffer, cellCount, cpuPendingCellCount, cellStagingBuffer,
                 bufferRotation, pc, todo, admitted, writeHist, resetHist>>

\* The admission test of addCellToStagingBuffer.
AdmitsStaged(count) == ~(count + 1 > MAX_CELLS)

\* addCellToStagingBuffer(newCell) between frames.
AddCellToStagingBufferRecord(newCell) ==
  /\ pc = "idle"
  /\ nextId <= MaxId
  /\ Waiting + 1 <= MaxQueued
  /\ IF AdmitsStaged(cellCount)
     THEN /\ cellStagingBuffer' = Append(cellStagingBuffer, newCell)
          /\ cpuCells' = Append(cpuCells, newCell)
          /\ cpuPendingCellCount' = cpuPendingCellCount + 1
          /\ nextId' = nextId + 1
     ELSE UNCHANGED <<cellStagingBuffer, cpuCells, cpuPendingCellCount, nextId>>
  /\ UNCHANGED <<toolVars, gridVars, instanceBuffer>>
  /\ events' = <<>>
  /\ frame' = NoFrame
  /\ UNCHANGED <<deviceVars, cellCount, gpuPendingCellCount, bufferRotation,
                 pc, todo, admitted, writeHist, resetHist, lastUpload>>

\* addCellToStagingBuffer of a record that is its identity alone.
AddCellToStagingBuffer == AddCellToStagingBufferRecord([id |-> nextId])

(* ------------------------------------------------------- resetSimulation *)

ProgramState ==
  [cellBuffer |-> cellBuffer,
   cellAdditionBuffer |-> cellAdditionBuffer,
   gpuCellCountBuffer |-> gpuCellCountBuffer,
   stagingCellCountBuffer |-> stagingCellCountBuffer,
   cellCount |-> cellCount,
   gpuPendingCellCount |-> gpuPendingCellCount,
   cpuPendingCellCount |-> cpuPendingCellCount,
   cellStagingBuffer |-> cellStagingBuffer,
   bufferRotation |-> bufferRotation,
   cpuCells |-> cpuCells,
   selectedCell |-> selectedCell,
   isDraggingCell |-> isDraggingCell,
   modeBuffer |-> modeBuffer]

\* Faulty variant: the reset advances the rotation instead of setting it.
resetBufferRotation_Advanced(r) == rotateBuffers(r)

\* resetSimulation line 636.
resetBufferRotation(r) == 0

\* Faulty variant: the reset leaves the selection as it is.
resetSelection_Kept(sel) == sel

\* resetSimulation line 639: clearSelection.
resetSelection(sel) == NoSelection

\* resetSimulation as a function of the program's state: the host vectors and
\* counts (lines 629 - 633), the rotation (636), the selection (639), the
\* counter pair (642 - 646), the three cell buffers (649 - 652), the addition
\* queue (657) and the mirror (664 - 665). The mode table is not written by
\* it. The instance buffer (654) and the grid buffers (660 - 662) are
\* cleared by the action.
resetSimulation(st) ==
  [st EXCEPT !.cpuCells = <<>>,
             !.cellStagingBuffer = <<>>,
             !.cellCount = 0,
             !.cpuPendingCellCount = 0,
             !.gpuPendingCellCount = 0,
             !.bufferRotation = resetBufferRotation(st.bufferRotation),
             !.selectedCell = resetSelection(st.selectedCell),
             !.isDraggingCell = FALSE,
             !.gpuCellCountBuffer = [live |-> 0, pending |-> 0],
             !.cellBuffer = [b \in 0..(NumCellBuffers - 1) |-> ClearedCellBuffer],
             !.cellAdditionBuffer = ClearedQueue,
             !.stagingCellCountBuffer = [live |-> 0, pending |-> 0]]

ResetSimulation ==
  /\ pc = "idle"
  /\ LET st == resetSimulation(ProgramState)
     IN /\ cellStagingBuffer' = st.cellStagingBuffer
        /\ cellCount' = st.cellCount
        /\ cpuPendingCellCount' = st.cpuPendingCellCount
        /\ gpuPendingCellCount' = st.gpuPendingCellCount
        /\ bufferRotation' = st.bufferRotation
        /\ gpuCellCountBuffer' = st.gpuCellCountBuffer
        /\ cellBuffer' = st.cellBuffer
        /\ cellAdditionBuffer' = st.cellAdditionBuffer
        /\ stagingCellCountBuffer' = st.stagingCellCountBuffer
        /\ cpuCells' = st.cpuCells
        /\ selectedCell' = st.selectedCell
        /\ isDraggingCell' = st.isDraggingCell
        /\ modeBuffer' = st.modeBuffer
  /\ instanceBuffer' = NoInstances
  /\ gridBuffer' = ZeroFilled
  /\ gridCountBuffer' = ZeroFilled
  /\ gridOffsetBuffer' = ZeroFilled
  /\ admitted' = {}
  /\ resetHist' = <<>>
  /\ events' = <<>>
  /\ frame' = NoFrame
  /\ lastUpload' = NoUpload
  /\ nextId' = 1
  /\ UNCHANGED <<pc, todo, writeHist>>

(* ------------------------------------------------------ the cell counter *)

\* The counter kernel (bindings 0 and 1, one thread per slot below
\* u_maxCells = MAX_CELLS): the number of active cells in the read view,
\* a slot being active when its record is not the cleared record.
CellCounterKernel(view) == Cardinality({i \in CellSlots : view[i] # ZeroCell})

\* runCellCounter lines 409 - 438: the whole pair is cleared (lines 414 -
\* 420), the kernel counts into liveCount, and the first uint only of the
\* pair is copied into the mirror (line 437). The host's cellCount is not
\* written.
runCellCounter(view, stg) ==
  LET dev == [live |-> CellCounterKernel(view), pending |-> 0]
  IN [dev |-> dev, stg |-> [stg EXCEPT !.live = dev.live]]

RunCellCounter ==
  /\ pc = "idle"
  /\ LET r == runCellCounter(cellBuffer[getCellReadBuffer(bufferRotation)],
                             stagingCellCountBuffer)
     IN /\ gpuCellCountBuffer' = r.dev
        /\ stagingCellCountBuffer' = r.stg
  /\ events' = <<>>
  /\ frame' = NoFrame
  /\ UNCHANGED <<cellBuffer, cellAdditionBuffer, cellCount, gpuPendingCellCount,
                 cpuPendingCellCount, cellStagingBuffer, bufferRotation, pc,
                 todo, admitted, writeHist, resetHist, lastUpload, nextId,
                 cpuCells, toolVars, gridVars, instanceBuffer>>

(* -------------------------------------------------------- the mode table *)

\* A genome mode as the host holds it (ModeSettings): its split interval and
\* the mode numbers of its two children.
ModeSettings(interval, a, b) ==
  [splitInterval |-> interval, childA |-> [modeNumber |-> a],
   childB |-> [modeNumber |-> b]]

\* The genomes the host uploads here: one of one mode and one of two modes.
Genomes == {<<ModeSettings(1, 0, 0)>>,
            <<ModeSettings(1, 1, 1), ModeSettings(2, 0, 0)>>}

\* addGenomeToBuffer lines 292 - 307: the device form of a mode.
GPUMode(mode) ==
  [splitInterval |-> mode.splitInterval,
   childModes |-> <<mode.childA.modeNumber, mode.childB.modeNumber>>]

\* addGenomeToBuffer lines 286 - 314: the modes are written from offset 0; the
\* slots after them keep what they held. An upload past the end of the table
\* writes nothing (GL_INVALID_VALUE).
addGenomeToBuffer(genomeData, buf) ==
  LET modeCount == Len(genomeData)
  IN IF modeCount > MAX_CELLS
       THEN buf
       ELSE [m \in ModeSlots |->
               IF m < modeCount THEN GPUMode(genomeData[m + 1]) ELSE buf[m]]

AddGenomeToBuffer ==
  /\ pc = "idle"
  /\ \E genomeData \in Genomes :
       modeBuffer' = addGenomeToBuffer(genomeData, modeBuffer)
  /\ UNCHANGED <<cellBuffer, cellAdditionBuffer, gpuCellCountBuffer,
                 stagingCellCountBuffer, cellCount, gpuPendingCellCount,
                 cpuPendingCellCount, cellStagingBuffer, bufferRotation, pc,
                 todo, events, frame, admitted, writeHist, resetHist,
                 lastUpload, nextId, cpuCells, selectedCell, isDraggingCell,
                 gridVars, instanceBuffer>>

(* ------------------------------------------------- updateCells: the frame *)

\* Keeps the last three entries of a history.
Last3(h) == IF Len(h) > 3 THEN SubSeq(h, Len(h) - 2, Len(h)) ELSE h

\* updateCells line 364: the simulation stages run only with cells.
\* Faulty variant: the stages run whatever the count.
RunsStages_Always(count) == count >= 0

RunsStages(count) == count > 0

\* The dragSelectedCell that came last before the frame, when the host's
\* last operation was one.
DragBefore ==
  IF events # <<>> /\ events[Len(events)].op = "drag"
  THEN <<events[Len(events)]>> ELSE <<>>

\* updateCells lines 353 - 363: copy the pair into the mirror, read both
\* counts, upload the staged cells (addStagedCellsToGPUBuffer). `count` is
\* the value the host reads as countPtr[0] at line 355.
UpdateCellsBeginReading(count) ==
  /\ UNCHANGED <<cpuCells, toolVars, gridVars, instanceBuffer>>
  /\ pc = "idle"
  /\ LET stg == gpuCellCountBuffer
         pend == stg.pending
         flush == cpuPendingCellCount > 0 /\ cellStagingBuffer # <<>>
         r == addCellsToGPUBuffer(cellStagingBuffer, count, pend,
                                  cellAdditionBuffer, gpuCellCountBuffer)
         up == flush /\ r.accepted
     IN /\ cellCount' = count
        /\ gpuPendingCellCount' = IF flush THEN r.pend ELSE pend
        /\ cellAdditionBuffer' = IF flush THEN r.queue ELSE cellAdditionBuffer
        /\ gpuCellCountBuffer' = IF flush THEN r.dev ELSE gpuCellCountBuffer
        /\ stagingCellCountBuffer' = IF up THEN r.dev ELSE stg
        /\ cellStagingBuffer' = IF flush THEN <<>> ELSE cellStagingBuffer
        /\ cpuPendingCellCount' = IF flush THEN 0 ELSE cpuPendingCellCount
        /\ lastUpload' = IF up THEN r.upload ELSE lastUpload
        /\ events' = DragBefore \o
                     <<HostOp("copyCount", <<"stagingCellCountBuffer">>)>> \o
                     (IF up
                      THEN <<HostOp("upload", <<"cellAdditionBuffer",
                                                  "gpuCellCountBuffer">>),
                             HostOp("copyCount", <<"stagingCellCountBuffer">>)>>
                      ELSE <<>>)
        /\ frame' = [liveStart |-> gpuCellCountBuffer.live,
                     pendStart |-> gpuCellCountBuffer.pending,
                     staged |-> Len(cellStagingBuffer),
                     hostQueued |-> gpuCellCountBuffer'.pending,
                     divisions |-> 0, liveBeforeApply |-> 0,
                     pendBeforeApply |-> 0, done |-> FALSE]
        /\ pc' = IF RunsStages(count) THEN "grid" ELSE "apply"
  /\ UNCHANGED <<cellBuffer, bufferRotation, todo, admitted, writeHist,
                 resetHist, nextId>>

\* The first step of a frame when the copy of line 353 has reached the
\* mapping before the host reads it: the host reads the device liveCount.
UpdateCellsBegin == UpdateCellsBeginReading(gpuCellCountBuffer.live)

\* The first step of a frame when the host reads the mapping (no fence
\* between the copy of line 353 and the read of line 355) while it still
\* holds the liveCount copied at the start of the previous frame.
UpdateCellsBeginLagging ==
  /\ frame.done
  /\ frame.liveStart < gpuCellCountBuffer.live
  /\ UpdateCellsBeginReading(frame.liveStart)

\* updateSpatialGrid: the four grid dispatches, a barrier after each.
\* Faulty variant: no barrier between the assign and the prefix-sum dispatches.
updateSpatialGridEvents_NoBarrier(r) ==
  << Dispatch("clear", runGridClearBindings), Barrier,
     Dispatch("assign", runGridAssignBindings(r)),
     Dispatch("prefixSum", runGridPrefixSumBindings), Barrier,
     Dispatch("insert", runGridInsertBindings(r)), Barrier >>

updateSpatialGridEvents(r) ==
  << Dispatch("clear", runGridClearBindings), Barrier,
     Dispatch("assign", runGridAssignBindings(r)), Barrier,
     Dispatch("prefixSum", runGridPrefixSumBindings), Barrier,
     Dispatch("insert", runGridInsertBindings(r)), Barrier >>

\* updateCells lines 367 - 369: updateSpatialGrid, then a barrier.
UpdateSpatialGrid ==
  /\ UNCHANGED <<cpuCells, toolVars, gridVars, instanceBuffer>>
  /\ pc = "grid"
  /\ events' = events \o
       (IF cellCount = 0 THEN <<>> ELSE updateSpatialGridEvents(bufferRotation))
       \o <<Barrier>>
  /\ pc' = "physics"
  /\ UNCHANGED <<deviceVars, hostVars, todo, frame, admitted, writeHist,
                 resetHist, lastUpload, nextId>>

\* The physics kernel (spec.md 4.3): thread i < liveCount writes the updated
\* record of cell i, read from binding 0, to binding 3.
PhysicsKernel(bufs, from, to, threads, live, dragged) ==
  [bufs EXCEPT ![to] = [i \in CellSlots |->
      IF i < threads /\ i < live /\ i # dragged
      THEN bufs[from][i] ELSE bufs[to][i]]]

\* Faulty variant: the dragged index is never passed to the kernels.
draggedCellIndex_None == NoSelection.cellIndex

\* runPhysicsCompute lines 532 - 533 and runUpdateCompute lines 566 - 567:
\* u_draggedCellIndex.
draggedCellIndex ==
  IF isDraggingCell /\ selectedCell.isValid THEN selectedCell.cellIndex ELSE -1

\* updateCells lines 372 - 374: runPhysicsCompute, then a barrier.
RunPhysicsCompute ==
  /\ UNCHANGED <<cpuCells, toolVars, gridVars, instanceBuffer>>
  /\ pc = "physics"
  /\ LET e == Dispatch("physics", runPhysicsComputeBindings(bufferRotation))
     IN /\ cellBuffer' = PhysicsKernel(cellBuffer, CellBufferIndex(e.bind[1]),
                                       CellBufferIndex(e.bind[4]),
                                       DispatchThreads(cellCount),
                                       gpuCellCountBuffer.live,
                                       draggedCellIndex)
        /\ events' = events \o <<e, Barrier>>
  /\ pc' = "update"
  /\ UNCHANGED <<cellAdditionBuffer, gpuCellCountBuffer, stagingCellCountBuffer,
                 hostVars, todo, frame, admitted, writeHist, resetHist,
                 lastUpload, nextId>>

\* Positions on a ring of two places; a move is one place forward.
Positions == {0, 1}

Moved(x) == (x + 1) % Cardinality(Positions)

\* The integration of one cell (spec.md 4.4) where a record has a position
\* and a velocity: the forces of the frame leave it moving, and it moves. A
\* record that is its identity alone is left as it is.
Integrate(c) ==
  IF "pos" \in DOMAIN c THEN [c EXCEPT !.vel = 1, !.pos = Moved(c.pos)] ELSE c

\* The integration kernel (spec.md 4.4): in place on binding 0, one thread
\* per live cell, the dragged cell skipped.
UpdateKernel(bufs, to, threads, live, dragged) ==
  [bufs EXCEPT ![to] = [i \in CellSlots |->
      IF i < threads /\ i < live /\ i # dragged
      THEN Integrate(bufs[to][i]) ELSE bufs[to][i]]]

\* updateCells lines 377 - 379: runUpdateCompute (in place on the write
\* view), a barrier.
RunUpdateCompute ==
  /\ UNCHANGED <<cpuCells, toolVars, gridVars, instanceBuffer>>
  /\ pc = "update"
  /\ LET e == Dispatch("update", runUpdateComputeBindings(bufferRotation))
     IN /\ cellBuffer' = UpdateKernel(cellBuffer, CellBufferIndex(e.bind[1]),
                                      DispatchThreads(cellCount),
                                      gpuCellCountBuffer.live,
                                      draggedCellIndex)
        /\ events' = events \o <<e, Barrier>>
  /\ pc' = "internal"
  /\ UNCHANGED <<cellAdditionBuffer, gpuCellCountBuffer, stagingCellCountBuffer,
                 hostVars, todo, frame, admitted, writeHist, resetHist,
                 lastUpload, nextId>>

\* updateCells line 382: runInternalUpdateCompute dispatches one thread per
\* cell of the host's count, in whole workgroups; the kernel returns for
\* indices at or above the device liveCount.  Which cells' split timers fire
\* in this frame is an input; a thread whose timer does not fire changes
\* neither the counts nor the queue, so only the firing threads are steps.
InternalThreads ==
  {i \in CellSlots : i < DispatchThreads(cellCount) /\ i < gpuCellCountBuffer.live}

RunInternalUpdateComputeFiring(firing) ==
  /\ UNCHANGED <<cpuCells, toolVars, gridVars, instanceBuffer>>
  /\ pc = "internal"
  /\ events' = events \o
       <<Dispatch("internal", runInternalUpdateComputeBindings(bufferRotation))>>
  /\ todo' = firing
  /\ pc' = "internalRun"
  /\ UNCHANGED <<deviceVars, hostVars, frame, admitted, writeHist, resetHist,
                 lastUpload, nextId>>

RunInternalUpdateCompute ==
  \E firing \in SUBSET InternalThreads :
    /\ nextId + Cardinality(firing) - 1 <= MaxId
    /\ RunInternalUpdateComputeFiring(firing)

\* The internal stage when every mode's splitInterval is the frame's dt: the
\* split timer of every live cell fires in every frame (spec.md 4.5).
RunInternalUpdateComputeCascade == RunInternalUpdateComputeFiring(InternalThreads)

\* The one cell a cascade starts from, staged when no cell was added before.
AddFirstCell == nextId = 1 /\ AddCellToStagingBuffer

\* Faulty variant: u_maxCells set to twice the capacity.
internalMaxCells_Twice == 2 * MAX_CELLS

\* Faulty variant: u_maxCells set to half the capacity.
internalMaxCells_Half == MAX_CELLS \div 2

\* u_maxCells as runInternalUpdateCompute sets it (line 587).
internalMaxCells == MAX_CELLS

\* The abort test of a division (spec.md 4.5, step 4).
DivisionAborts(live, pending, maxCells) ==
  pending + 1 > maxCells \div 2 \/ live + pending + 1 > maxCells

\* One firing thread of the internal stage (spec.md 4.5): it reserves a queue
\* slot with one atomic operation on pendingCount, writes the child there
\* and the parent in place at slot i of the write view, or aborts and writes
\* no queue slot. `parentAfter` and `child` are the two records of the
\* division, `parentAborted` the record of the parent whose division aborts.
InternalThreadWriting(i, parentAfter, child, parentAborted) ==
  /\ UNCHANGED <<cpuCells, toolVars, gridVars, instanceBuffer>>
  /\ pc = "internalRun"
  /\ i \in todo
  /\ todo' = todo \ {i}
  /\ LET live == gpuCellCountBuffer.live
         slot == gpuCellCountBuffer.pending
         w == getCellWriteBuffer(bufferRotation)
     IN IF DivisionAborts(live, slot, internalMaxCells)
        THEN /\ cellBuffer' = [cellBuffer EXCEPT ![w][i] = parentAborted]
             /\ UNCHANGED <<gpuCellCountBuffer, cellAdditionBuffer, nextId,
                            frame>>
        ELSE /\ gpuCellCountBuffer' =
                  [gpuCellCountBuffer EXCEPT !.pending = slot + 1]
             /\ cellAdditionBuffer' =
                  [j \in QueueSlots |-> IF j = slot THEN child
                                        ELSE cellAdditionBuffer[j]]
             /\ cellBuffer' = [cellBuffer EXCEPT ![w][i] = parentAfter]
             /\ nextId' = nextId + 1
             /\ frame' = [frame EXCEPT !.divisions = @ + 1]
  /\ UNCHANGED <<stagingCellCountBuffer, hostVars, pc, events,
                 admitted, writeHist, resetHist, lastUpload>>

\* The cell the thread of index i of the internal stage works on.
Parent(i) == cellBuffer[getCellWriteBuffer(bufferRotation)][i]

\* A firing thread where a record is its identity alone: the parent keeps its
\* record, the child is a fresh one.
InternalThread(i) ==
  InternalThreadWriting(i, Parent(i), [id |-> nextId], Parent(i))

\* updateCells line 384: the barrier after the internal stage.
InternalDone ==
  /\ UNCHANGED <<cpuCells, toolVars, gridVars, instanceBuffer>>
  /\ pc = "internalRun"
  /\ todo = {}
  /\ events' = events \o <<Barrier>>
  /\ pc' = "apply"
  /\ UNCHANGED <<deviceVars, hostVars, todo, frame, admitted, writeHist,
                 resetHist, lastUpload, nextId>>

(* --------------------------------------------------- cells with a mode *)

\* The mode indices of the records the host stages here.
ModeIndices == {0, 1}

\* addCellToStagingBuffer of a record with a mode index; lines 258 - 274 do
\* not look at it.
AddCellWithMode ==
  \E m \in ModeIndices :
    AddCellToStagingBufferRecord([id |-> nextId, modeIndex |-> m])

\* The mode index of a record; the cleared record is all zero.
ModeIndexOf(c) == IF "modeIndex" \in DOMAIN c THEN c.modeIndex ELSE 0

\* The mode record the internal stage reads for a cell (binding 0).
ModeOf(c) == modeBuffer[ModeIndexOf(c)]

\* A firing thread of the internal stage with modes (spec.md 4.5, steps 1
\* and 3): the parent keeps its slot with mode A, the child is queued with
\* mode B, (A, B) being the childModes of the parent's mode.
InternalThreadModes(i) ==
  InternalThreadWriting(i,
    [id |-> Parent(i).id, modeIndex |-> ModeOf(Parent(i)).childModes[1]],
    [id |-> nextId, modeIndex |-> ModeOf(Parent(i)).childModes[2]],
    Parent(i))

(* --------------------------------------------- cells with a split timer *)

\* Time in halves of a frame's dt: the frame's dt, the splitInterval of every
\* mode (two frames), and the small positive value an aborted division
\* leaves in the timer (spec.md 4.5, step 4): less than one dt.
FrameDt == 2

SplitInterval == 4

RetryTimer == 1

\* The split timer of a record; the cleared record is all zero.
TimerOf(c) == IF "splitTimer" \in DOMAIN c THEN c.splitTimer ELSE 0

\* A record with its timer set.
Timed(c, t) == [id |-> c.id, modeIndex |-> ModeIndexOf(c), splitTimer |-> t]

\* addCellToStagingBuffer of a record of mode 0 with a fresh split timer.
AddCellWithTimer ==
  /\ nextId <= MaxTimedId
  /\ AddCellToStagingBufferRecord(
       [id |-> nextId, modeIndex |-> 0, splitTimer |-> SplitInterval])

\* The childModes (A, B) of the two modes of the genome used here: the
\* parent changes mode, the child takes the mode the parent had.
ChildModes(m) == <<1 - m, m>>

\* The split timer of cell i after this frame's countdown (spec.md 4.5).
CountedDown(i) == TimerOf(Parent(i)) - FrameDt

\* The timer of cell i fires in this frame.
Fires(i) == CountedDown(i) <= 0

\* A thread of the internal stage whose timer does not fire (spec.md 4.5):
\* it writes the cell's local state, the timer counted down, in place.
InternalThreadCounting(i) ==
  /\ pc = "internalRun"
  /\ i \in todo
  /\ ~Fires(i)
  /\ todo' = todo \ {i}
  /\ cellBuffer' = [cellBuffer EXCEPT ![getCellWriteBuffer(bufferRotation)][i] =
                      Timed(Parent(i), CountedDown(i))]
  /\ UNCHANGED <<cellAdditionBuffer, gpuCellCountBuffer, stagingCellCountBuffer,
                 hostVars, pc, events, frame, admitted, writeHist, resetHist,
                 lastUpload, nextId, cpuCells, toolVars, gridVars,
                 instanceBuffer>>

\* A thread of the internal stage whose timer fires (spec.md 4.5, steps 1,
\* 3 and 4): the parent keeps its slot with mode A and the child is queued
\* with mode B, both with a fresh timer; or the division aborts and the
\* parent is left as it was, its timer reset to the small positive value.
InternalThreadFiring(i) ==
  /\ Fires(i)
  /\ InternalThreadWriting(i,
       [id |-> Parent(i).id,
        modeIndex |-> ChildModes(ModeIndexOf(Parent(i)))[1],
        splitTimer |-> SplitInterval],
       [id |-> nextId,
        modeIndex |-> ChildModes(ModeIndexOf(Parent(i)))[2],
        splitTimer |-> SplitInterval],
       Timed(Parent(i), RetryTimer))

(* ------------------------------------------------------- the drag tool *)

\* The cell buffer getCellReadBuffer() names.
ReadViewOf == cellBuffer[getCellReadBuffer(bufferRotation)]


\* addCellToStagingBuffer of the first cell, a record at position 0 with no
\* velocity, made by the host (no parent); the other cells are its
\* descendants.
AddCellAt ==
  /\ nextId = 1
  /\ AddCellToStagingBufferRecord([id |-> nextId, pos |-> 0, vel |-> 0,
                                   parent |-> -1])

\* The internal stage of a frame of the drag tool's program: the split timers
\* that fire are an input, and no more than MaxDragId cells ever exist.
RunInternalUpdateComputeFew ==
  \E firing \in SUBSET InternalThreads :
    /\ nextId + Cardinality(firing) - 1 <= MaxDragId
    /\ RunInternalUpdateComputeFiring(firing)

\* The position and the velocity of a record; the cleared record is all zero.
PosOf(c) == IF "pos" \in DOMAIN c THEN c.pos ELSE 0

VelOf(c) == IF "vel" \in DOMAIN c THEN c.vel ELSE 0

\* A firing thread of the internal stage with positions (spec.md 4.5, step
\* 3): the parent keeps its slot, its position offset along the split
\* direction; the child is queued at the opposite offset with the parent's
\* velocity. The child records the slot of its parent.
InternalThreadPositions(i) ==
  InternalThreadWriting(i,
    [id |-> Parent(i).id, pos |-> Moved(PosOf(Parent(i))),
     vel |-> VelOf(Parent(i)), parent |-> -1],
    [id |-> nextId, pos |-> Moved(Moved(PosOf(Parent(i)))),
     vel |-> VelOf(Parent(i)), parent |-> i],
    Parent(i))

\* syncCellPositionsFromGPU lines 1021 - 1060: the first cellCount records
\* of the read view replace or extend the host's copies.
syncCellPositionsFromGPU(cells, view, count) ==
  IF count = 0 THEN cells
  ELSE [n \in 1..(IF Len(cells) > count THEN Len(cells) ELSE count) |->
          IF n <= count THEN view[n - 1] ELSE cells[n]]

\* dragSelectedCell lines 974 - 981 and endDrag lines 1006 - 1008 on the
\* host's copy of the selected cell. Where the record carries a split timer
\* its position and velocity are not part of it, and the host's copy is left
\* as it is.
Dragged(c, p) ==
  IF "splitTimer" \in DOMAIN c THEN c
  ELSE [id |-> c.id, pos |-> p, vel |-> 0, parent |-> -1]

Stopped(c) ==
  IF "splitTimer" \in DOMAIN c THEN c
  ELSE [id |-> c.id, pos |-> PosOf(c), vel |-> 0, parent |-> -1]

\* dragSelectedCell lines 984 - 990 and endDrag lines 1009 - 1015: the host's
\* copy written at the selected index of the three cell buffers.
WriteSelectedCell(bufs, idx, c) ==
  [b \in 0..(NumCellBuffers - 1) |-> [bufs[b] EXCEPT ![idx] = c]]

DragEvent == HostOp("drag", <<CellBufferName(0), CellBufferName(1),
                              CellBufferName(2)>>)

\* handleMouseInput lines 871 - 915 with the button pressed and held: the
\* sync, the selection of the cell the ray meets first (idx, or none: -1),
\* and, with a cell selected, the drag to the cell's own position.
HandleMousePress ==
  /\ pc = "idle"
  /\ ~isDraggingCell
  /\ \E idx \in -1..(cellCount - 1) :
       LET synced == syncCellPositionsFromGPU(cpuCells, ReadViewOf, cellCount)
       IN IF idx >= 0
          THEN LET c == Dragged(synced[idx + 1], PosOf(synced[idx + 1]))
               IN /\ selectedCell' = [isValid |-> TRUE, cellIndex |-> idx]
                  /\ isDraggingCell' = TRUE
                  /\ cpuCells' = [synced EXCEPT ![idx + 1] = c]
                  /\ cellBuffer' = WriteSelectedCell(cellBuffer, idx, c)
                  /\ events' = <<DragEvent>>
          ELSE /\ selectedCell' = NoSelection
               /\ isDraggingCell' = FALSE
               /\ cpuCells' = synced
               /\ events' = <<>>
               /\ UNCHANGED cellBuffer
  /\ frame' = NoFrame
  /\ UNCHANGED <<cellAdditionBuffer, gpuCellCountBuffer, stagingCellCountBuffer,
                 hostVars, pc, todo, admitted, writeHist, resetHist,
                 lastUpload, nextId, modeBuffer, gridVars, instanceBuffer>>

\* handleMouseInput lines 910 - 916 with the button held: dragSelectedCell
\* (lines 968 - 992) to a position p.
DragSelectedCell ==
  /\ pc = "idle"
  /\ isDraggingCell
  /\ selectedCell.isValid
  /\ \E p \in Positions :
       LET idx == selectedCell.cellIndex
           c == Dragged(cpuCells[idx + 1], p)
       IN /\ cpuCells' = [cpuCells EXCEPT ![idx + 1] = c]
          /\ cellBuffer' = WriteSelectedCell(cellBuffer, idx, c)
  /\ events' = <<DragEvent>>
  /\ frame' = NoFrame
  /\ UNCHANGED <<cellAdditionBuffer, gpuCellCountBuffer, stagingCellCountBuffer,
                 hostVars, pc, todo, admitted, writeHist, resetHist,
                 lastUpload, nextId, toolVars, gridVars, instanceBuffer>>

\* handleMouseInput lines 917 - 923 with the button released: endDrag (lines
\* 1001 - 1019).
EndDrag ==
  /\ pc = "idle"
  /\ isDraggingCell
  /\ IF selectedCell.isValid
     THEN LET idx == selectedCell.cellIndex
              c == Stopped(cpuCells[idx + 1])
          IN /\ cpuCells' = [cpuCells EXCEPT ![idx + 1] = c]
             /\ cellBuffer' = WriteSelectedCell(cellBuffer, idx, c)
     ELSE UNCHANGED <<cpuCells, cellBuffer>>
  /\ isDraggingCell' = FALSE
  /\ events' = <<>>
  /\ frame' = NoFrame
  /\ UNCHANGED <<cellAdditionBuffer, gpuCellCountBuffer, stagingCellCountBuffer,
                 hostVars, pc, todo, admitted, writeHist, resetHist,
                 lastUpload, nextId, selectedCell, modeBuffer, gridVars,
                 instanceBuffer>>

(* ------------------------------------------------------- updateCellData *)

\* The record updateCellData is called with: one no cell was authored with.
NewData == [id |-> MaxId + 1]

\* updateCellData lines 339 - 345: the host's copy written at `index` of
\* cellBuffer[i] for i < 2.
WriteCellData(bufs, index, c) ==
  [b \in 0..(NumCellBuffers - 1) |->
     IF b < 2 THEN [bufs[b] EXCEPT ![index] = c] ELSE bufs[b]]

\* updateCellData(index, newData), lines 326 - 347, between frames, for an
\* index in range or not; the host holds a copy of every cell it indexes
\* here (no cell has divided).
UpdateCellData ==
  /\ pc = "idle"
  /\ \E index \in -1..MAX_CELLS :
       IF index >= 0 /\ index < cellCount
       THEN /\ index < Len(cpuCells)
            /\ cpuCells' = [cpuCells EXCEPT ![index + 1] = NewData]
            /\ cellBuffer' = WriteCellData(cellBuffer, index, cpuCells'[index + 1])
            /\ events' = <<[op |-> "updateCellData",
                            bind |-> <<CellBufferName(0), CellBufferName(1)>>,
                            index |-> index]>>
       ELSE /\ events' = <<>>
            /\ UNCHANGED <<cpuCells, cellBuffer>>
  /\ frame' = NoFrame
  /\ UNCHANGED <<cellAdditionBuffer, gpuCellCountBuffer, stagingCellCountBuffer,
                 hostVars, pc, todo, admitted, writeHist, resetHist,
                 lastUpload, nextId, toolVars, gridVars, instanceBuffer>>

(* ------------------------------------------------------ the spatial grid *)

\* config::TOTAL_GRID_CELLS: the voxels of the grid.
TOTAL_GRID_CELLS == GRID_RESOLUTION * GRID_RESOLUTION * GRID_RESOLUTION

Voxels == 0..(TOTAL_GRID_CELLS - 1)

\* initializeSpatialGrid lines 708 - 711: the elements of gridBuffer.
GridBufferSize == TOTAL_GRID_CELLS * MAX_CELLS_PER_GRID

\* addCellToStagingBuffer of a record at one of the two places, at rest, made
\* by the host.
AddCellAtPosition ==
  /\ nextId <= MaxGridId
  /\ \E p \in Positions :
       AddCellToStagingBufferRecord([id |-> nextId, pos |-> p, vel |-> 0,
                                     parent |-> -1])

\* The grid coordinates of a position (spec.md 4.2, floor((pos - origin) / h),
\* clamped at the boundary): the place 0 lies in the first voxel of the world
\* cube, the place 1 in the last.
GridCoordinates(p) ==
  LET g == IF p = 0 THEN 0 ELSE GRID_RESOLUTION
      clamped == IF g > GRID_RESOLUTION - 1 THEN GRID_RESOLUTION - 1 ELSE g
  IN <<clamped, clamped, clamped>>

\* The index of the voxel at grid coordinates <<x, y, z>>.
VoxelIndex(g) ==
  g[1] + g[2] * GRID_RESOLUTION + g[3] * GRID_RESOLUTION * GRID_RESOLUTION

\* v(i): the voxel of the cell at index i of the read view.
VoxelOfCell(i) == VoxelIndex(GridCoordinates(PosOf(ReadViewOf[i])))

\* The threads of a grid dispatch of (cellCount + 63) / 64 groups that do not
\* return at once: the kernel returns for indices at or above liveCount.
GridThreads ==
  {i \in CellSlots : i < DispatchThreads(cellCount) /\ i < gpuCellCountBuffer.live}

\* runGridClear lines 779 - 791: one thread for every voxel, in whole
\* workgroups; the kernel zeroes count[v] for v < u_totalGridCells.
GridClearKernel(count, threads, total) ==
  [v \in {u \in DOMAIN count : ~(u < threads /\ u < total)} |-> count[v]]

\* updateSpatialGrid lines 733 - 740: with cells, runGridClear and a barrier.
\* (updateCells calls it with cellCount > 0 only, line 364.)
RunGridClear ==
  /\ pc = "grid"
  /\ cellCount # 0
  /\ gridCountBuffer' = GridClearKernel(gridCountBuffer,
                                        DispatchThreads(TOTAL_GRID_CELLS),
                                        TOTAL_GRID_CELLS)
  /\ events' = events \o <<Dispatch("clear", runGridClearBindings), Barrier>>
  /\ pc' = "gridAssign"
  /\ UNCHANGED <<deviceVars, hostVars, todo, frame, admitted, writeHist,
                 resetHist, lastUpload, nextId, cpuCells, toolVars,
                 gridBuffer, gridOffsetBuffer, instanceBuffer>>

\* updateSpatialGrid line 743, runGridAssign lines 793 - 810: the dispatch.
RunGridAssign ==
  /\ pc = "gridAssign"
  /\ events' = events \o <<Dispatch("assign", runGridAssignBindings(bufferRotation))>>
  /\ todo' = GridThreads
  /\ pc' = "gridAssignRun"
  /\ UNCHANGED <<deviceVars, hostVars, frame, admitted, writeHist, resetHist,
                 lastUpload, nextId, cpuCells, toolVars, gridVars,
                 instanceBuffer>>

\* One thread of the assign kernel (spec.md 4.2, step 2): an atomic increment
\* of count[v(i)]. The kernel is not given K (lines 797 - 799).
GridAssignThread(i) ==
  /\ pc = "gridAssignRun"
  /\ i \in todo
  /\ todo' = todo \ {i}
  /\ gridCountBuffer' = Put(gridCountBuffer, VoxelOfCell(i),
                            At(gridCountBuffer, VoxelOfCell(i)) + 1)
  /\ UNCHANGED <<deviceVars, hostVars, pc, events, frame, admitted, writeHist,
                 resetHist, lastUpload, nextId, cpuCells, toolVars,
                 gridBuffer, gridOffsetBuffer, instanceBuffer>>

RECURSIVE SumOver(_, _)
\* The sum of the elements of buf at the indices of the set S.
SumOver(buf, S) ==
  IF S = {} THEN 0
  ELSE LET u == CHOOSE x \in S : TRUE
       IN At(buf, u) + SumOver(buf, S \ {u})

\* The workgroup of the thread of index v.
Workgroup(v) == v \div WorkgroupSize

\* The prefix-sum kernel (spec.md 4.2, step 3): a single-pass scan by the
\* threads of one workgroup. Thread v < u_totalGridCells writes offset[v], the
\* exclusive scan of the counts of its own workgroup.
GridPrefixSumKernel(count, offset, threads, total) ==
  LET scanned(v) ==
        IF v < threads /\ v < total
        THEN SumOver(count, {u \in DOMAIN count :
                               Workgroup(u) = Workgroup(v) /\ u < v})
        ELSE At(offset, v)
  IN [v \in {u \in 0..(total - 1) : scanned(u) # 0} |-> scanned(v)]

\* updateSpatialGrid lines 745 - 750, runGridPrefixSum lines 812 - 825: when
\* every thread of the assign dispatch has run: a barrier, one dispatch of
\* (TOTAL_GRID_CELLS + 63) / 64 workgroups, a barrier.
RunGridPrefixSum ==
  /\ pc = "gridAssignRun"
  /\ todo = {}
  /\ gridOffsetBuffer' = GridPrefixSumKernel(gridCountBuffer, gridOffsetBuffer,
                                             DispatchThreads(TOTAL_GRID_CELLS),
                                             TOTAL_GRID_CELLS)
  /\ events' = events \o
       <<Barrier, Dispatch("prefixSum", runGridPrefixSumBindings), Barrier>>
  /\ pc' = "gridInsert"
  /\ UNCHANGED <<deviceVars, hostVars, todo, frame, admitted, writeHist,
                 resetHist, lastUpload, nextId, cpuCells, toolVars,
                 gridBuffer, gridCountBuffer, instanceBuffer>>

\* updateSpatialGrid line 753, runGridInsert lines 827 - 843: the dispatch.
RunGridInsert ==
  /\ pc = "gridInsert"
  /\ events' = events \o <<Dispatch("insert", runGridInsertBindings(bufferRotation))>>
  /\ todo' = GridThreads
  /\ pc' = "gridInsertRun"
  /\ UNCHANGED <<deviceVars, hostVars, frame, admitted, writeHist, resetHist,
                 lastUpload, nextId, cpuCells, toolVars, gridVars,
                 instanceBuffer>>

\* u_maxCellsPerGrid as runGridInsert sets it (line 832).
insertMaxCellsPerGrid == MAX_CELLS_PER_GRID

\* The cursor of voxel v, counted from offset[v]: the scatter threads of the
\* running dispatch that have reserved a slot of v.
LocalCursor(v) == Cardinality({k \in GridThreads \ todo : VoxelOfCell(k) = v})

\* The element of the index buffer the scatter thread of cell i has reserved.
ScatterSlot(i) == At(gridOffsetBuffer, VoxelOfCell(i)) + LocalCursor(VoxelOfCell(i))

\* The scatter thread of cell i drops its assignment.
ScatterDrops(i) == LocalCursor(VoxelOfCell(i)) + 1 > insertMaxCellsPerGrid

\* One thread of the scatter kernel (spec.md 4.2, step 4): it reserves a slot
\* by an atomic increment of the cursor of v(i), seeded from offset[v(i)], and
\* stores the cell index there; it drops the assignment when the local
\* cursor would exceed K.
GridInsertThread(i) ==
  /\ pc = "gridInsertRun"
  /\ i \in todo
  /\ todo' = todo \ {i}
  /\ gridBuffer' = IF ScatterDrops(i) \/ ScatterSlot(i) >= GridBufferSize
                   THEN gridBuffer
                   ELSE Put(gridBuffer, ScatterSlot(i), i)
  /\ UNCHANGED <<deviceVars, hostVars, pc, events, frame, admitted, writeHist,
                 resetHist, lastUpload, nextId, cpuCells, toolVars,
                 gridCountBuffer, gridOffsetBuffer, instanceBuffer>>

\* updateSpatialGrid line 755 and updateCells line 369, when every thread of
\* the scatter dispatch has run: the two barriers.
GridInsertDone ==
  /\ pc = "gridInsertRun"
  /\ todo = {}
  /\ events' = events \o <<Barrier, Barrier>>
  /\ pc' = "physics"
  /\ UNCHANGED <<deviceVars, hostVars, todo, frame, admitted, writeHist,
                 resetHist, lastUpload, nextId, cpuCells, toolVars, gridVars,
                 instanceBuffer>>

\* The internal stage of a frame in which no split timer fires.
RunInternalUpdateComputeQuiet == RunInternalUpdateComputeFiring({})

(* ------------------------------------------------------ the render feed *)

\* Faulty variant: the instances extracted from the write view.
renderCellsBindings_WriteView(r) ==
  <<CellBufferName(getCellWriteBuffer(r)), "modeBuffer", "instanceBuffer",
    "gpuCellCountBuffer">>

\* renderCells lines 464 - 467: the bindings of the extract dispatch.
renderCellsBindings(r) ==
  <<CellBufferName(getCellReadBuffer(r)), "modeBuffer", "instanceBuffer",
    "gpuCellCountBuffer">>

\* The instance of a cell (spec.md 4.8): its position, radius and colour,
\* here the identity of the record they are taken from.
InstanceOf(c) == c.id

\* The extract kernel (spec.md 4.8): thread i < liveCount writes the instance
\* of cell i of binding 0 at element i of the instance buffer.
ExtractKernel(view, inst, threads, live) ==
  [i \in CellSlots |->
     IF i < threads /\ i < live THEN InstanceOf(view[i]) ELSE inst[i]]

\* sphereMesh.render(cellCount), line 512: an instanced draw of n spheres.
Draw(n) == [op |-> "draw", bind |-> <<"instanceBuffer">>, count |-> n]

\* renderCells lines 440 - 522 between frames, with a resolution that is
\* usable or not: nothing with cellCount = 0 or an unusable resolution, and
\* otherwise the extract dispatch of (cellCount + 63) / 64 groups and the
\* draw of cellCount instances.
RenderCells ==
  /\ pc = "idle"
  /\ \E usable \in BOOLEAN :
       IF cellCount = 0 \/ ~usable
       THEN /\ events' = <<HostOp("render", <<>>)>>
            /\ UNCHANGED instanceBuffer
       ELSE LET e == Dispatch("extract", renderCellsBindings(bufferRotation))
            IN /\ instanceBuffer' =
                    ExtractKernel(cellBuffer[CellBufferIndex(e.bind[1])],
                                  instanceBuffer, DispatchThreads(cellCount),
                                  gpuCellCountBuffer.live)
               /\ events' = <<HostOp("render", <<>>), e, Draw(cellCount)>>
  /\ UNCHANGED <<deviceVars, hostVars, pc, todo, frame, admitted, writeHist,
                 resetHist, lastUpload, nextId, cpuCells, toolVars, gridVars>>

(* ------------------------------------------------------ addition apply *)

\* Faulty variant: one thread dispatched, not one for every slot of the queue.
applyCellAdditionsThreads_OneThread == Min(MAX_CELLS \div 2, 1)

\* applyCellAdditions line 615: threads dispatched, whatever pendingCount is.
applyCellAdditionsThreads == DispatchThreads(MAX_CELLS \div 2)

\* Faulty variant: the uniform set to twice the capacity.
applyMaxCells_Twice == 2 * MAX_CELLS

\* Faulty variant: the uniform set one too large.
applyMaxCells_OneMore == MAX_CELLS + 1

\* u_maxCells as applyCellAdditions sets it (line 607).
applyMaxCells == MAX_CELLS

\* updateCells lines 388 - 389 and applyCellAdditions lines 604 - 616: copy
\* the pair into the mirror, read pendingCount, dispatch the apply kernel.
\* Thread j of the kernel returns at once when j >= pendingCount.
ApplyCellAdditions ==
  /\ UNCHANGED <<cpuCells, toolVars, gridVars, instanceBuffer>>
  /\ pc = "apply"
  /\ stagingCellCountBuffer' = gpuCellCountBuffer
  /\ gpuPendingCellCount' = gpuCellCountBuffer.pending
  /\ events' = events \o
       << HostOp("copyCount", <<"stagingCellCountBuffer">>),
          Dispatch("apply", applyCellAdditionsBindings(bufferRotation)) >>
  /\ todo' = {j \in 0..(applyCellAdditionsThreads - 1) :
                j < gpuCellCountBuffer.pending}
  /\ admitted' = {}
  /\ frame' = [frame EXCEPT !.liveBeforeApply = gpuCellCountBuffer.live,
                            !.pendBeforeApply = gpuCellCountBuffer.pending]
  /\ pc' = "applyRun"
  /\ UNCHANGED <<cellBuffer, cellAdditionBuffer, gpuCellCountBuffer, cellCount,
                 cpuPendingCellCount, cellStagingBuffer, bufferRotation,
                 writeHist, resetHist, lastUpload, nextId>>

\* What a kernel reads from queue slot j: the slot, or, past the end of the
\* buffer, zero or the last slot (an out-of-range read is not defined).
QueueRead(q, j) ==
  IF j \in QueueSlots THEN {q[j]}
  ELSE {ZeroCell} \cup {q[x] : x \in {QueueCapacity - 1} \cap QueueSlots}

\* One thread j < pendingCount of the apply kernel (spec.md 4.6): reserve
\* index k by an atomic increment of liveCount and copy the queued record to
\* index k of bindings 1 and 2; a record that finds the store full
\* (k >= u_maxCells) is dropped (spec.md 7: capacity errors are dropped).
ApplyThread(j) ==
  /\ UNCHANGED <<cpuCells, toolVars, gridVars, instanceBuffer>>
  /\ pc = "applyRun"
  /\ j \in todo
  /\ todo' = todo \ {j}
  /\ \E rec \in QueueRead(cellAdditionBuffer, j) :
       LET k == gpuCellCountBuffer.live
           bind == applyCellAdditionsBindings(bufferRotation)
           in1 == CellBufferIndex(bind[2])
           in2 == CellBufferIndex(bind[3])
       IN IF k < applyMaxCells
          THEN /\ gpuCellCountBuffer' = [gpuCellCountBuffer EXCEPT !.live = k + 1]
               /\ cellBuffer' =
                    [b \in 0..(NumCellBuffers - 1) |->
                       IF (b = in1 \/ b = in2) /\ k \in CellSlots
                       THEN [cellBuffer[b] EXCEPT ![k] = rec]
                       ELSE cellBuffer[b]]
               /\ admitted' = admitted \cup {<<k, rec>>}
          ELSE UNCHANGED <<gpuCellCountBuffer, cellBuffer, admitted>>
  /\ UNCHANGED <<cellAdditionBuffer, stagingCellCountBuffer, hostVars, pc,
                 events, frame, writeHist, resetHist, lastUpload, nextId>>

\* Faulty variant: offset 0 instead of sizeof(GLuint): liveCount is zeroed.
ZeroPending_Offset0(dev) == [dev EXCEPT !.live = 0]

\* applyCellAdditions lines 620 - 621: the host zeroes pendingCount, the
\* second uint of the pair.
ZeroPending(dev) == [dev EXCEPT !.pending = 0]

\* applyCellAdditions lines 618 - 623, after the dispatch.
applyCellAdditionsTail ==
  << Barrier, HostOp("zeroPending", <<"gpuCellCountBuffer">>),
     HostOp("copyCount", <<"stagingCellCountBuffer">>) >>

\* Faulty variant: the copy into the mirror left out.
MirrorAfterApply_NoCopy(dev, stg) == stg

\* applyCellAdditions line 623: the mirror after the copy of the pair.
MirrorAfterApply(dev, stg) == dev

\* updateCells line 394: the barrier after applyCellAdditions.
updateCellsTail == <<Barrier>>

\* Faulty variant: the rotation inside the block that runs only when cellCount > 0.
RotationAfterFrame_InsideIf(r, count) ==
  IF count > 0 THEN rotateBuffers(r) ELSE r

\* updateCells line 406: the rotation at the end of the frame.
RotationAfterFrame(r, count) == rotateBuffers(r)

\* applyCellAdditions lines 618 - 623 and updateCells lines 394 - 406, when
\* every thread of the apply dispatch has run.
ApplyDoneStep ==
  /\ UNCHANGED <<cpuCells, toolVars, gridVars, instanceBuffer>>
  /\ pc = "applyRun"
  /\ todo = {}
  /\ gpuCellCountBuffer' = ZeroPending(gpuCellCountBuffer)
  /\ stagingCellCountBuffer' =
       MirrorAfterApply(gpuCellCountBuffer', stagingCellCountBuffer)
  /\ cellCount' = stagingCellCountBuffer'.live
  /\ bufferRotation' = RotationAfterFrame(bufferRotation, cellCount)
  /\ events' = events \o applyCellAdditionsTail \o updateCellsTail
                      \o <<HostOp("rotate", <<>>)>>
  /\ frame' = [frame EXCEPT !.done = TRUE]
  /\ pc' = "idle"
  /\ lastUpload' = NoUpload
  /\ UNCHANGED <<cellBuffer, cellAdditionBuffer, gpuPendingCellCount,
                 cpuPendingCellCount, cellStagingBuffer, todo, admitted, nextId>>

\* The end of the frame, the histories of write views left alone.
ApplyDone ==
  /\ ApplyDoneStep
  /\ UNCHANGED <<writeHist, resetHist>>

\* The end of the frame, the frame's write view appended to the histories.
ApplyDoneRecorded ==
  /\ ApplyDoneStep
  /\ writeHist' = Last3(Append(writeHist, getCellWriteBuffer(bufferRotation)))
  /\ resetHist' = Last3(Append(resetHist, getCellWriteBuffer(bufferRotation)))

(* ------------------------------------------------------------------ Spec *)

\* The steps of a frame between its first step and its last.
FrameStep ==
  \/ UpdateSpatialGrid
  \/ RunPhysicsCompute
  \/ RunUpdateCompute
  \/ RunInternalUpdateCompute
  \/ \E i \in CellSlots : InternalThread(i)
  \/ InternalDone
  \/ ApplyCellAdditions
  \/ \E j \in 0..(applyCellAdditionsThreads - 1) : ApplyThread(j)

Step ==
  \/ AddCellToStagingBuffer
  \/ AddCellsToGPUBuffer
  \/ ResetSimulation
  \/ UpdateCellsBegin
  \/ FrameStep

Next == Step \/ ApplyDone

Spec == Init /\ [][Next]_vars

\* The program with staged ingress, the write view of every frame recorded.
NextRot ==
  \/ AddCellToStagingBuffer
  \/ ResetSimulation
  \/ UpdateCellsBegin
  \/ FrameStep
  \/ ApplyDoneRecorded

SpecRot == Init /\ [][NextRot]_vars

\* The same program with runCellCounter among the host's operations.
NextCounter == Step \/ ApplyDone \/ RunCellCounter

SpecCounter == Init /\ [][NextCounter]_vars

\* The program with staged ingress, the host's read of liveCount at the start
\* of a frame lagging the device by one frame or not at all.
NextLag ==
  \/ AddCellToStagingBuffer
  \/ ResetSimulation
  \/ UpdateCellsBegin
  \/ UpdateCellsBeginLagging
  \/ FrameStep
  \/ ApplyDone

SpecLag == Init /\ [][NextLag]_vars

\* A division cascade: one cell is staged, every split timer fires in every
\* frame. The host's loop calls updateCells again and again and the device
\* runs every dispatched thread: weak fairness of the next-state relation.
NextCascade ==
  \/ AddFirstCell
  \/ UpdateCellsBegin
  \/ UpdateSpatialGrid
  \/ RunPhysicsCompute
  \/ RunUpdateCompute
  \/ RunInternalUpdateComputeCascade
  \/ \E i \in CellSlots : InternalThread(i)
  \/ InternalDone
  \/ ApplyCellAdditions
  \/ \E j \in 0..(applyCellAdditionsThreads - 1) : ApplyThread(j)
  \/ ApplyDone

SpecCascade == Init /\ [][NextCascade]_vars /\ WF_vars(NextCascade)

\* The program with the drag tool and cells that have a position.
NextDrag ==
  \/ AddCellAt
  \/ HandleMousePress
  \/ DragSelectedCell
  \/ EndDrag
  \/ ResetSimulation
  \/ UpdateCellsBegin
  \/ UpdateSpatialGrid
  \/ RunPhysicsCompute
  \/ RunUpdateCompute
  \/ RunInternalUpdateComputeFew
  \/ \E i \in CellSlots : InternalThreadPositions(i)
  \/ InternalDone
  \/ ApplyCellAdditions
  \/ \E j \in 0..(applyCellAdditionsThreads - 1) : ApplyThread(j)
  \/ ApplyDone

SpecDrag == Init /\ [][NextDrag]_vars

\* The program with a genome and staged cells that carry a mode index.
NextMode ==
  \/ AddGenomeToBuffer
  \/ AddCellWithMode
  \/ ResetSimulation
  \/ UpdateCellsBegin
  \/ UpdateSpatialGrid
  \/ RunPhysicsCompute
  \/ RunUpdateCompute
  \/ RunInternalUpdateCompute
  \/ \E i \in CellSlots : InternalThreadModes(i)
  \/ InternalDone
  \/ ApplyCellAdditions
  \/ \E j \in 0..(applyCellAdditionsThreads - 1) : ApplyThread(j)
  \/ ApplyDone

SpecMode == Init /\ [][NextMode]_vars

\* The program with the genome upload among the host's operations, and the
\* staged path as its only ingress.
NextReset ==
  \/ AddGenomeToBuffer
  \/ AddCellToStagingBuffer
  \/ ResetSimulation
  \/ UpdateCellsBegin
  \/ FrameStep
  \/ ApplyDone

SpecReset == Init /\ [][NextReset]_vars

\* The one cell the program below starts from; the others are its descendants.
AddFirstTimedCell == nextId = 1 /\ AddCellWithTimer

\* A firing thread where no more than MaxDragId cells ever exist.
InternalThreadFiringFew(i) == nextId <= MaxDragId /\ InternalThreadFiring(i)

\* The program with the drag tool and cells that carry a mode and a split
\* timer, all descended from one staged cell.
NextDragTimed ==
  \/ AddFirstTimedCell
  \/ HandleMousePress
  \/ DragSelectedCell
  \/ EndDrag
  \/ UpdateCellsBegin
  \/ UpdateSpatialGrid
  \/ RunPhysicsCompute
  \/ RunUpdateCompute
  \/ RunInternalUpdateComputeCascade
  \/ \E i \in CellSlots : InternalThreadCounting(i)
  \/ \E i \in CellSlots : InternalThreadFiringFew(i)
  \/ InternalDone
  \/ ApplyCellAdditions
  \/ \E j \in 0..(applyCellAdditionsThreads - 1) : ApplyThread(j)
  \/ ApplyDone

SpecDragTimed == Init /\ [][NextDragTimed]_vars

\* The same program with resetSimulation among the host's operations.
NextSelect == NextDragTimed \/ ResetSimulation

SpecSelect == Init /\ [][NextSelect]_vars

\* The program with staged ingress, frames in which no cell divides, and
\* updateCellData between frames.
NextEdit ==
  \/ AddCellToStagingBuffer
  \/ UpdateCellData
  \/ UpdateCellsBegin
  \/ UpdateSpatialGrid
  \/ RunPhysicsCompute
  \/ RunUpdateCompute
  \/ RunInternalUpdateComputeQuiet
  \/ InternalDone
  \/ ApplyCellAdditions
  \/ \E j \in 0..(applyCellAdditionsThreads - 1) : ApplyThread(j)
  \/ ApplyDone

SpecEdit == Init /\ [][NextEdit]_vars

\* The internal stage with any subset of the live cells' timers firing.
RunInternalUpdateComputeAny ==
  \E firing \in SUBSET InternalThreads : RunInternalUpdateComputeFiring(firing)

\* The program with staged ingress and whole frames in which any subset of
\* the live cells divides.
NextQueue ==
  \/ AddCellToStagingBuffer
  \/ UpdateCellsBegin
  \/ UpdateSpatialGrid
  \/ RunPhysicsCompute
  \/ RunUpdateCompute
  \/ RunInternalUpdateComputeAny
  \/ \E i \in CellSlots : InternalThread(i)
  \/ InternalDone
  \/ ApplyCellAdditions
  \/ \E j \in 0..(applyCellAdditionsThreads - 1) : ApplyThread(j)
  \/ ApplyDone

SpecQueue == Init /\ [][NextQueue]_vars

\* The program with cells that carry a split timer: staged ingress and whole
\* frames, every live cell's thread running in the internal stage.
NextAbort ==
  \/ AddCellWithTimer
  \/ UpdateCellsBegin
  \/ UpdateSpatialGrid
  \/ RunPhysicsCompute
  \/ RunUpdateCompute
  \/ RunInternalUpdateComputeCascade
  \/ \E i \in CellSlots : InternalThreadCounting(i)
  \/ \E i \in CellSlots : InternalThreadFiring(i)
  \/ InternalDone
  \/ ApplyCellAdditions
  \/ \E j \in 0..(applyCellAdditionsThreads - 1) : ApplyThread(j)
  \/ ApplyDone

SpecAbort == Init /\ [][NextAbort]_vars

\* The program with staged ingress, the write view of every frame recorded,
\* and renderCells among the host's operations.
NextRender == NextRot \/ RenderCells

SpecRender == Init /\ [][NextRender]_vars

\* The program with cells at the two places and the grid rebuilt by the
\* threads of its kernels, in any order; no cell divides.
NextGrid ==
  \/ AddCellAtPosition
  \/ ResetSimulation
  \/ UpdateCellsBegin
  \/ RunGridClear
  \/ RunGridAssign
  \/ \E i \in CellSlots : GridAssignThread(i)
  \/ RunGridPrefixSum
  \/ RunGridInsert
  \/ \E i \in CellSlots : GridInsertThread(i)
  \/ GridInsertDone
  \/ RunPhysicsCompute
  \/ RunUpdateCompute
  \/ RunInternalUpdateComputeQuiet
  \/ InternalDone
  \/ ApplyCellAdditions
  \/ \E j \in 0..(applyCellAdditionsThreads - 1) : ApplyThread(j)
  \/ ApplyDone

SpecGrid == Init /\ [][NextGrid]_vars

(* ---------------------------------------------------------------- claims *)

FrameReturned == pc = "idle" /\ frame.done

LiveIndices == {i \in CellSlots : i < gpuCellCountBuffer.live}

ReadView == cellBuffer[getCellReadBuffer(bufferRotation)]

C2_NoLossNoDuplication ==
  /\ lastUpload.count > 0 => lastUpload.offset = lastUpload.devicePending
  /\ pc = "idle" =>
       \A i, j \in LiveIndices :
          (i # j /\ ReadView[i].id # 0) => ReadView[i].id # ReadView[j].id

\* C3: the device liveCount never exceeds MAX_CELLS.
C3_LiveCountBounded == gpuCellCountBuffer.live <= MAX_CELLS

\* The store is full after an apply that had more records than room.
C3_Witness ==
  /\ FrameReturned
  /\ frame.liveBeforeApply + frame.pendBeforeApply > MAX_CELLS
  /\ gpuCellCountBuffer.live = MAX_CELLS

\* C4 as stated, for frames that began with an empty queue: when the internal
\* stage has ended (the apply is about to be dispatched) pendingCount is at
\* most MAX_CELLS / 2, and the upload of the frame stayed inside the queue.
C4_PendingWithinQueue ==
  (pc = "apply" /\ frame.pendStart = 0)
  => /\ gpuCellCountBuffer.pending <= QueueCapacity
     /\ ~lastUpload.oob

\* C5: when updateCells has returned, pendingCount is 0 on the device and in
\* the mirror, the mirror equals the device pair, and liveCount is its value
\* before the apply plus the number of records the apply admitted.
C5_AfterApply ==
  FrameReturned
  => /\ gpuCellCountBuffer.pending = 0
     /\ stagingCellCountBuffer = gpuCellCountBuffer
     /\ gpuCellCountBuffer.live = frame.liveBeforeApply + Cardinality(admitted)
     /\ Cardinality(admitted) =
          Min(frame.pendBeforeApply, MAX_CELLS - frame.liveBeforeApply)

\* A frame has returned whose apply admitted two records.
C5_Witness ==
  /\ FrameReturned
  /\ frame.pendBeforeApply = 2
  /\ Cardinality(admitted) = 2

\* C6: the device liveCount never decreases in a step other than
\* resetSimulation, a returned frame ends with at least the liveCount it
\* began with, and with exactly that liveCount when no division was queued
\* and no host record was in the queue.
C6_CountMonotone ==
  /\ [][ResetSimulation
        \/ gpuCellCountBuffer'.live >= gpuCellCountBuffer.live]_vars
  /\ [](FrameReturned =>
          /\ gpuCellCountBuffer.live >= frame.liveStart
          /\ (frame.divisions = 0 /\ frame.hostQueued = 0)
               => gpuCellCountBuffer.live = frame.liveStart)

\* A frame over two live cells returned with no division and no ingress.
C6_Witness ==
  /\ FrameReturned
  /\ frame.liveStart = 2
  /\ frame.divisions = 0
  /\ frame.hostQueued = 0
  /\ gpuCellCountBuffer.live = 2

EventsOf(op) == {n \in 1..Len(events) : events[n].op = op}

\* C7: in every frame the physics dispatch reads the read view B[r] at
\* binding 0 and writes the write view B[(r+1) mod 3] at binding 3, two
\* different buffers; the integration dispatch (binding 0) and the internal
\* dispatch (binding 1) are bound to that same write view.
C7_ViewsDisjoint ==
  (pc \in {"update", "internal", "apply"})
  => \A p \in EventsOf("physics") :
       /\ events[p].bind[1] = CellBufferName(bufferRotation)
       /\ events[p].bind[4] = CellBufferName((bufferRotation + 1) % 3)
       /\ events[p].bind[1] # events[p].bind[4]
       /\ \A u \in EventsOf("update") : events[u].bind[1] = events[p].bind[4]
       /\ \A n \in EventsOf("internal") : events[n].bind[2] = events[p].bind[4]

\* Physics, integration and the internal stage were dispatched with r = 2.
C7_Witness ==
  /\ pc = "apply"
  /\ bufferRotation = 2
  /\ EventsOf("physics") # {} /\ EventsOf("update") # {}
  /\ EventsOf("internal") # {}

\* C8 as stated: the rotation index advances by one modulo 3 at the end of
\* every frame, and the write views of any three frames in a row are the
\* three buffers.
C8_ThreeFrames_AsStated ==
  /\ [][(pc = "applyRun" /\ pc' = "idle")
         => bufferRotation' = (bufferRotation + 1) % 3]_vars
  /\ [](Len(writeHist) = 3 => Range(writeHist) = {0, 1, 2})

\* C8 amended: the rotation index advances by one modulo 3 at the end of
\* every frame, whatever liveCount is, and changes in no other step but
\* resetSimulation; the write views of any three frames in a row with no
\* resetSimulation between them are the three buffers.
C8_RotationAdvances ==
  /\ [][(pc = "applyRun" /\ pc' = "idle")
         => bufferRotation' = (bufferRotation + 1) % 3]_vars
  /\ [][(pc' = pc \/ pc' # "idle")
         => (bufferRotation' = bufferRotation \/ ResetSimulation)]_vars
  /\ [](Len(resetHist) = 3 => Range(resetHist) = {0, 1, 2})

\* Three frames in a row since the last reset, the third with no live cell.
C8_Witness ==
  /\ FrameReturned
  /\ Len(resetHist) = 3
  /\ frame.liveStart = 0
  /\ frame.pendBeforeApply = 0

StageOrder == <<"clear", "assign", "prefixSum", "insert", "physics", "update",
                "internal", "apply">>

DispatchedOps ==
  LET d == SelectSeq(events, LAMBDA e : e.op \in DispatchOps)
  IN [n \in 1..Len(d) |-> d[n].op]

IsPrefix(s, t) == Len(s) <= Len(t) /\ s = SubSeq(t, 1, Len(s))

BarrierBetween(a, b) == \E n \in EventsOf("barrier") : a < n /\ n < b

Hazard(e1, e2) ==
  Writes(e1) \cap (Reads(e2) \cup Writes(e2)) # {}

\* C9: the dispatches of a frame follow the order clear, assign, prefix sum,
\* scatter, physics, integrate, internal, apply (the apply alone when the
\* frame began with no live cell), the rotation comes last; a barrier lies
\* between any two dispatches of which the later reads or writes what the
\* earlier wrote; the zeroing of pendingCount has a barrier between the
\* apply dispatch and itself and a barrier after it before the frame returns.
C9_StageOrder ==
  (pc \in {"idle", "grid", "physics", "update", "internal", "apply"}) =>
  /\ IsPrefix(DispatchedOps, StageOrder) \/ DispatchedOps = <<"apply">>
  /\ LET d == {n \in 1..Len(events) : events[n].op \in DispatchOps}
     IN \A a, b \in d :
          (a < b /\ Hazard(events[a], events[b])) => BarrierBetween(a, b)
  /\ \A z \in EventsOf("zeroPending") :
       /\ \E a \in EventsOf("apply") : a < z /\ BarrierBetween(a, z)
       /\ FrameReturned => BarrierBetween(z, Len(events))
  /\ FrameReturned =>
       /\ DispatchedOps = IF frame.liveStart > 0 THEN StageOrder ELSE <<"apply">>
       /\ EventsOf("rotate") = {Len(events)}
       /\ Cardinality(EventsOf("zeroPending")) = 1

\* A frame with every stage has returned and its apply admitted a record.
C9_Witness ==
  /\ FrameReturned
  /\ DispatchedOps = StageOrder
  /\ admitted # {}

\* C10: a record the apply admitted at index k is at index k of the read
\* view when the frame has returned with the views rotated, and at index k
\* of the cell buffer that the grid-assign, scatter and physics dispatches
\* of the next frame read at binding 0, below liveCount.
C10_AdmittedInNextReadView ==
  /\ FrameReturned =>
       \A a \in admitted :
          a[1] < gpuCellCountBuffer.live /\ ReadView[a[1]] = a[2]
  /\ (pc \in {"update", "internal", "apply"}) =>
       \A n \in EventsOf("assign") \cup EventsOf("insert")
                  \cup EventsOf("physics") :
         \A a \in admitted :
            /\ a[1] < gpuCellCountBuffer.live
            /\ cellBuffer[CellBufferIndex(events[n].bind[1])][a[1]] = a[2]

\* The frame before began with no live cell and admitted a record at index
\* 0; grid and physics of this frame have been dispatched with r = 2.
C10_Witness ==
  /\ pc = "update"
  /\ bufferRotation = 2
  /\ EventsOf("assign") # {} /\ EventsOf("physics") # {}
  /\ \E a \in admitted : a[1] = 0 /\ a[2].id # 0

\* A frame that began with n >= 1 staged records, an empty queue and room
\* for the n records in the store.
StagedBatchFits ==
  /\ frame.staged >= 1
  /\ frame.pendStart = 0
  /\ frame.liveStart + frame.staged <= MAX_CELLS

\* C15 as stated: when n records were staged before a frame and
\* liveCount + n <= MAX_CELLS, the frame uploads all n into the queue, and
\* when it has returned liveCount has grown by n plus the frame's divisions.
C15_HostAdmission ==
  /\ (pc # "idle" /\ StagedBatchFits)
       => (lastUpload.count = frame.staged /\ ~lastUpload.oob)
  /\ (FrameReturned /\ StagedBatchFits)
       => gpuCellCountBuffer.live =
            frame.liveStart + frame.staged + frame.divisions

\* C16 as stated: a record that addCellToStagingBuffer rejects leaves the
\* staging vector, the queue and both counters as they were, and the staged
\* records that fit are admitted by the next frame: a frame that began with n
\* staged records and an empty queue ends with liveCount at least
\* min(liveCount + n, MAX_CELLS).
C16_OverflowRejectsOnlyOffender ==
  /\ [][(AddCellToStagingBuffer /\ ~AdmitsStaged(cellCount))
         => UNCHANGED <<cellStagingBuffer, cellAdditionBuffer,
                        gpuCellCountBuffer, stagingCellCountBuffer>>]_vars
  /\ []((FrameReturned /\ frame.pendStart = 0 /\ frame.staged >= 1)
         => gpuCellCountBuffer.live >=
              Min(frame.liveStart + frame.staged, MAX_CELLS))

\* The state of a CellManager after construction.
InitialState ==
  [cellBuffer |-> [b \in 0..(NumCellBuffers - 1) |-> ClearedCellBuffer],
   cellAdditionBuffer |-> ClearedQueue,
   gpuCellCountBuffer |-> [live |-> 0, pending |-> 0],
   stagingCellCountBuffer |-> [live |-> 0, pending |-> 0],
   cellCount |-> 0,
   gpuPendingCellCount |-> 0,
   cpuPendingCellCount |-> 0,
   cellStagingBuffer |-> <<>>,
   bufferRotation |-> 0,
   cpuCells |-> <<>>,
   selectedCell |-> NoSelection,
   isDraggingCell |-> FALSE,
   modeBuffer |-> NoModes]

\* C11 as stated: when resetSimulation returns, both counts are 0 in the
\* device pair and in the mirror, the rotation is 0, the three cell buffers,
\* the mode table and the addition queue are cleared, and the staged cells,
\* the CPU mirror of the cells and the selection are empty.
C11_ResetPostcondition ==
  [][ResetSimulation =>
       /\ gpuCellCountBuffer' = [live |-> 0, pending |-> 0]
       /\ stagingCellCountBuffer' = [live |-> 0, pending |-> 0]
       /\ bufferRotation' = 0
       /\ \A b \in 0..(NumCellBuffers - 1) : cellBuffer'[b] = ClearedCellBuffer
       /\ modeBuffer' = NoModes
       /\ cellAdditionBuffer' = ClearedQueue
       /\ cellStagingBuffer' = <<>>
       /\ cpuCells' = <<>>
       /\ selectedCell' = NoSelection]_vars

\* C12: a second resetSimulation right after a first changes nothing: the
\* state a reset leaves is a fixed point of resetSimulation.
C12_ResetIdempotent ==
  [][ResetSimulation =>
       resetSimulation(ProgramState') = ProgramState']_vars

\* A reset has just acted on a state with live cells, staged records, a
\* rotated view and an uploaded genome, and it changed that state.
C12_Witness ==
  /\ pc = "idle"
  /\ gpuCellCountBuffer.live > 0
  /\ cellStagingBuffer # <<>>
  /\ bufferRotation # 0
  /\ modeBuffer # NoModes
  /\ resetSimulation(ProgramState) # ProgramState
  /\ resetSimulation(resetSimulation(ProgramState)) = resetSimulation(ProgramState)

\* C13 as stated: resetSimulation from any reachable state leaves the state
\* of a freshly constructed CellManager, so that the same operations after it
\* give the same states as from the initial state.
C13_ResetEqualsFreshStart ==
  [][ResetSimulation => ProgramState' = InitialState]_vars

\* C19 as stated: between the host's operations the host's liveCount and
\* pendingCount are the values of the mirror, the mirror equals the device
\* pair, and the host's liveCount does not exceed the device liveCount.
C19_HostObservedCounts ==
  pc = "idle" =>
    /\ cellCount = stagingCellCountBuffer.live
    /\ gpuPendingCellCount = stagingCellCountBuffer.pending
    /\ stagingCellCountBuffer = gpuCellCountBuffer
    /\ cellCount <= gpuCellCountBuffer.live

\* C20 as stated: with a host liveCount that lags by up to one frame no live
\* cell is lost or corrupted: across every step but a reset, the record at
\* every index below the device liveCount in the read view is still that
\* cell's record in the read view after the step.
C20_LaggingCountTolerated ==
  [][ResetSimulation \/
     \A i \in LiveIndices :
       cellBuffer'[getCellReadBuffer(bufferRotation')][i] = ReadView[i]]_vars

\* C18: in a cascade from one cell, a frame that begins with liveCount >= 1
\* and 2 * liveCount <= MAX_CELLS ends with liveCount doubled; no step
\* decreases liveCount; and once a cell is live, liveCount eventually is
\* MAX_CELLS and stays MAX_CELLS.
C18_DivisionCascade ==
  /\ []((FrameReturned /\ frame.liveStart >= 1
           /\ 2 * frame.liveStart <= MAX_CELLS)
         => gpuCellCountBuffer.live = 2 * frame.liveStart)
  /\ [][gpuCellCountBuffer'.live >= gpuCellCountBuffer.live]_vars
  /\ [](gpuCellCountBuffer.live >= 1
         => <>[](gpuCellCountBuffer.live = MAX_CELLS))

\* A frame has returned that began at capacity: every division in it was
\* aborted and liveCount is still MAX_CELLS.
C18_Witness ==
  /\ FrameReturned
  /\ frame.liveStart = MAX_CELLS
  /\ frame.divisions = 0
  /\ gpuCellCountBuffer.live = MAX_CELLS

\* A mode index is valid when it names a slot of the mode table that a
\* genome upload has written.
ValidModeIndex(m) == m \in ModeSlots /\ modeBuffer[m] # ZeroMode

\* A genome is uploaded and the childModes of every uploaded mode are valid.
GenomeValid ==
  /\ modeBuffer # NoModes
  /\ \A m \in ModeSlots :
       modeBuffer[m] # ZeroMode =>
         /\ ValidModeIndex(modeBuffer[m].childModes[1])
         /\ ValidModeIndex(modeBuffer[m].childModes[2])

\* C17 as stated: with a valid genome uploaded, the mode index of every live
\* cell of the read view is valid between frames: a staged record with an
\* invalid mode index never becomes a live cell.
C17_LiveModeIndexValid ==
  (pc = "idle" /\ GenomeValid) =>
    \A i \in LiveIndices :
      ReadView[i].id # 0 => ValidModeIndex(ModeIndexOf(ReadView[i]))

\* A drag is on, and dragSelectedCell supplied a position before the frame.
DragSupplied ==
  /\ isDraggingCell
  /\ selectedCell.isValid
  /\ EventsOf("drag") # {}

\* The apply of the frame admitted a child of the dragged cell.
DraggedCellDivided ==
  \E a \in admitted :
    "parent" \in DOMAIN a[2] /\ a[2].parent = selectedCell.cellIndex

\* The dragged cell's record in the read view is at rest at the position
\* the host supplied last.
DraggedCellAtRest ==
  LET idx == selectedCell.cellIndex
  IN /\ VelOf(ReadView[idx]) = 0
     /\ PosOf(ReadView[idx]) = PosOf(cpuCells[idx + 1])

\* C14 as stated: when a frame has returned before which dragSelectedCell
\* supplied a position for the dragged cell, the cell's velocity in the read
\* view is zero and its position is the position supplied.
C14_Stasis_AsStated ==
  (FrameReturned /\ DragSupplied) => DraggedCellAtRest

\* C14: the same, for the frames in which the dragged cell does not divide:
\* the physics and the integration kernels skip the dragged index, the
\* internal stage is not told it.
C14_StasisUnlessDivided ==
  (FrameReturned /\ DragSupplied /\ ~DraggedCellDivided) => DraggedCellAtRest

\* A frame of two live cells has returned with the rotation at 2 in which
\* the dragged cell stayed at rest where the host put it while the other
\* cell moved.
C14_Witness ==
  /\ FrameReturned
  /\ DragSupplied
  /\ ~DraggedCellDivided
  /\ bufferRotation = 2
  /\ frame.liveStart >= 2
  /\ DraggedCellAtRest
  /\ \E i \in LiveIndices :
       i # selectedCell.cellIndex /\ VelOf(ReadView[i]) = 1

\* The live cells of voxel v when the grid is rebuilt.
CellsOfVoxel(v) == {i \in LiveIndices : VoxelOfCell(i) = v}

\* The cell indices stored for voxel v: the first n elements of the index
\* buffer from offset[v].
StoredIndices(v, n) ==
  [k \in 1..n |-> At(gridBuffer, At(gridOffsetBuffer, v) + k - 1)]

\* The first n elements stored for v are n different cells of v.
StoresCellsOf(v, n) ==
  /\ Range(StoredIndices(v, n)) \subseteq CellsOfVoxel(v)
  /\ Cardinality(Range(StoredIndices(v, n))) = n

RangeOfVoxel(v) ==
  {n \in 0..(GridBufferSize - 1) :
     /\ At(gridOffsetBuffer, v) <= n
     /\ n < At(gridOffsetBuffer, v) + At(gridCountBuffer, v)}

\* C22 as stated: when the grid has been rebuilt count[v] <= K for every
\* voxel v, also with more than K live cells in v; and a scatter thread that
\* stores an index stores it inside the index buffer and in the range of no
\* voxel but its own.
C22_VoxelCapacity ==
  /\ pc = "physics" =>
       \A v \in Voxels : At(gridCountBuffer, v) <= MAX_CELLS_PER_GRID
  /\ pc = "gridInsertRun" =>
       \A i \in todo :
          ~ScatterDrops(i) =>
            /\ ScatterSlot(i) < GridBufferSize
            /\ \A u \in DOMAIN gridCountBuffer \ {VoxelOfCell(i)} :
                 ScatterSlot(i) \notin RangeOfVoxel(u)

StageOps == {"clear", "assign", "prefixSum", "insert", "physics", "update",
             "internal"}

\* C24 as stated: in a frame that finds pendingCount > 0 after the host's
\* upload, the addition apply is dispatched before every dispatch of the
\* grid, physics, integration and internal stages, and those stages run with
\* the waiting records counted by liveCount.
C24_ApplyBeforeStages ==
  frame.hostQueued > 0 =>
    /\ \A n \in 1..Len(events) :
         events[n].op \in StageOps => \E a \in EventsOf("apply") : a < n
    /\ pc \in {"physics", "update", "internal"} =>
         gpuCellCountBuffer.live >= frame.liveStart + frame.hostQueued

\* The dispatches of the frame other than integration and the internal stage.
DisjointDispatches ==
  {n \in 1..Len(events) :
     events[n].op \in DispatchOps \ {"update", "internal"}}

AtomicCounters(op) ==
  CASE op = "assign" -> {"gridCountBuffer"}
    [] op = "apply"  -> {"gpuCellCountBuffer"}
    [] OTHER         -> {}

Rendered == events # <<>> /\ events[1].op = "render"

\* C26: renderCells extracts the instances from the read view, the buffer
\* that was the write view of the frame completed last; the first n elements
\* of the instance buffer are the instances of the first n cells of that
\* view, n being the number of spheres drawn; n is the liveCount the host
\* observed; with that count 0 nothing is dispatched and nothing is drawn.
C26_RenderFeed ==
  Rendered =>
    /\ \A n \in EventsOf("extract") :
         /\ events[n].bind[1] = CellBufferName(getCellReadBuffer(bufferRotation))
         /\ resetHist # <<>> =>
              events[n].bind[1] = CellBufferName(resetHist[Len(resetHist)])
    /\ \A d \in EventsOf("draw") :
         /\ events[d].count = cellCount
         /\ events[d].count = stagingCellCountBuffer.live
         /\ \E n \in EventsOf("extract") : n < d
         /\ \A i \in CellSlots :
              i < events[d].count => instanceBuffer[i] = InstanceOf(ReadView[i])
    /\ cellCount = 0 => (EventsOf("extract") = {} /\ EventsOf("draw") = {})

\* renderCells has drawn two spheres after a frame that admitted the second
\* cell, from the buffer that was the write view of that frame.
C26_Witness ==
  /\ Rendered
  /\ frame.done
  /\ admitted # {}
  /\ bufferRotation = 2
  /\ \E d \in EventsOf("draw") : events[d].count = 2
  /\ instanceBuffer[1] # 0

\* The frame in progress, or returned last, began with liveCount = 0, an
\* empty staging vector and an empty addition queue.
EmptyFrame ==
  frame.liveStart = 0 /\ frame.staged = 0 /\ frame.pendStart = 0

\* C27: a frame that begins with liveCount = 0 and nothing staged dispatches
\* no grid, physics, integration or internal kernel, dispatches the addition
\* apply, advances the rotation, and returns with liveCount = 0 and
\* pendingCount = 0 on the device and on the host; so does every following
\* such frame.
C27_EmptyFrames ==
  /\ [](EmptyFrame /\ (pc # "idle" \/ frame.done) =>
          /\ \A n \in 1..Len(events) : events[n].op \notin StageOps
          /\ gpuCellCountBuffer.live = 0
          /\ frame.done =>
               /\ EventsOf("apply") # {}
               /\ EventsOf("rotate") # {}
               /\ gpuCellCountBuffer = [live |-> 0, pending |-> 0]
               /\ stagingCellCountBuffer = [live |-> 0, pending |-> 0]
               /\ cellCount = 0)
  /\ [][EmptyFrame /\ pc = "applyRun" /\ pc' = "idle" =>
          bufferRotation' = rotateBuffers(bufferRotation)]_vars

\* The second of two consecutive empty frames of a store for which no cell
\* was ever authored has returned: the rotation, 0 at construction and after
\* a reset, is 2.
C27_Witness ==
  /\ FrameReturned
  /\ EmptyFrame
  /\ nextId = 1
  /\ bufferRotation = 2
  /\ EventsOf("apply") # {}

\* Thread i of the internal stage takes its step, its timer fires and the
\* abort test of spec.md 4.5 refuses the division.
AbortsAt(i) ==
  /\ pc = "internalRun"
  /\ i \in todo
  /\ todo' = todo \ {i}
  /\ Fires(i)
  /\ \/ gpuCellCountBuffer.pending + 1 > MAX_CELLS \div 2
     \/ gpuCellCountBuffer.live + gpuCellCountBuffer.pending + 1 > MAX_CELLS

\* Thread i takes its step in the frame after one that aborted its division.
RetriesAt(i) ==
  /\ pc = "internalRun"
  /\ i \in todo
  /\ todo' = todo \ {i}
  /\ TimerOf(ReadView[i]) = RetryTimer

\* What a step of the program with split timers does to an aborted
\* division, at the end of a frame, and to a parent that retries.
AbortedDivisionStep ==
  /\ \A i \in CellSlots : AbortsAt(i) =>
        LET w == getCellWriteBuffer(bufferRotation)
        IN /\ cellBuffer'[w][i].id = cellBuffer[w][i].id
           /\ ModeIndexOf(cellBuffer'[w][i]) = ModeIndexOf(cellBuffer[w][i])
           /\ TimerOf(cellBuffer'[w][i]) = RetryTimer
           /\ \A b \in 0..(NumCellBuffers - 1), x \in CellSlots :
                <<b, x>> # <<w, i>> => cellBuffer'[b][x] = cellBuffer[b][x]
           /\ cellAdditionBuffer' = cellAdditionBuffer
           /\ gpuCellCountBuffer' = gpuCellCountBuffer
           /\ frame'.divisions = frame.divisions
  /\ pc = "applyRun" /\ pc' = "idle" =>
       \A i \in CellSlots :
         i < frame.liveStart =>
           ReadView'[i] = cellBuffer[getCellWriteBuffer(bufferRotation)][i]
  /\ \A i \in CellSlots : RetriesAt(i) =>
       /\ Fires(i)
       /\ AbortsAt(i) \/
            /\ gpuCellCountBuffer'.pending = gpuCellCountBuffer.pending + 1
            /\ cellAdditionBuffer'[gpuCellCountBuffer.pending].id = nextId

\* C28: an aborted division leaves the parent in its slot with its mode,
\* writes no queue slot and leaves the counts as they were; the write view
\* it is left in is the read view of the next frame, in which the parent's
\* timer fires again and the division is made if the abort test allows it;
\* when the internal stage is over, pendingCount is the number of records
\* the host uploaded plus the number of divisions made, and every queue slot
\* from the host's records up to pendingCount holds a child made in this
\* frame.
C28_AbortedDivision ==
  /\ [](pc = "apply" =>
          /\ gpuCellCountBuffer.pending = frame.hostQueued + frame.divisions
          /\ \A j \in QueueSlots :
               frame.hostQueued <= j /\ j < gpuCellCountBuffer.pending =>
                 /\ cellAdditionBuffer[j].id =
                      nextId - (gpuCellCountBuffer.pending - j)
                 /\ TimerOf(cellAdditionBuffer[j]) = SplitInterval)
  /\ [][AbortedDivisionStep]_vars

\* The internal stage of a frame is over in which the cell at slot 0, whose
\* division the frame before aborted, has divided, the child waiting in the
\* queue.
C28_Witness ==
  /\ pc = "apply"
  /\ TimerOf(ReadView[0]) = RetryTimer
  /\ TimerOf(cellBuffer[getCellWriteBuffer(bufferRotation)][0]) = SplitInterval
  /\ frame.divisions = 1
  /\ gpuCellCountBuffer.pending = frame.hostQueued + 1

\* The destination indices of the records the apply in progress, or the
\* apply of the frame returned last, has admitted.
Destinations == {a[1] : a \in admitted}

\* C29: whatever the order of the apply's threads, the destination indices
\* are pairwise distinct (as many as records admitted, one per increment of
\* liveCount), they are the contiguous range from the liveCount before the
\* apply to the liveCount now, all below MAX_CELLS, none the index of a cell
\* that was live before the apply; a step of the apply leaves every such
\* cell as it was in the three buffers; the threads at or above pendingCount
\* are no writers, and no more threads than pendingCount admit a record.
C29_DestinationIndices ==
  /\ [](pc = "applyRun" \/ FrameReturned =>
          LET old == frame.liveBeforeApply
              now == IF pc = "applyRun" THEN gpuCellCountBuffer.live
                     ELSE stagingCellCountBuffer.live
          IN /\ Cardinality(Destinations) = Cardinality(admitted)
             /\ Cardinality(admitted) = now - old
             /\ Destinations = {k \in 0..(MAX_CELLS - 1) : old <= k /\ k < now}
             /\ \A k \in Destinations : k < MAX_CELLS /\ ~(k < old)
             /\ Cardinality(admitted) <= frame.pendBeforeApply
             /\ pc = "applyRun" => \A j \in todo : j < frame.pendBeforeApply)
  /\ [][pc = "applyRun" /\ pc' = "applyRun" =>
          \A b \in 0..(NumCellBuffers - 1), i \in CellSlots :
            i < frame.liveBeforeApply => cellBuffer'[b][i] = cellBuffer[b][i]]_vars

\* An apply in progress: two of its threads have admitted their records at
\* two indices above a live cell, the thread of the higher queue slot first.
C29_Witness ==
  /\ pc = "applyRun"
  /\ frame.liveBeforeApply = 1
  /\ Cardinality(Destinations) = 2
  /\ \E a, b \in admitted : a[1] < b[1] /\ a[2].id > b[2].id /\ a[2].id # 0

\* The queue slots a step writes.
QueueSlotsWritten == {j \in QueueSlots : cellAdditionBuffer'[j] # cellAdditionBuffer[j]}

\* A step of resetSimulation, which clears the queue and the counts.
QueueCleared ==
  /\ pc = "idle"
  /\ cellAdditionBuffer' = ClearedQueue
  /\ gpuCellCountBuffer' = [live |-> 0, pending |-> 0]

\* What a step does to the addition queue: a writer writes only slots at or
\* above pendingCount and leaves them below it; a thread of the internal
\* stage writes one slot, at or above the pendingCount the host's upload
\* left; pendingCount goes down only when an apply is over (or at a reset).
QueueWriterStep ==
  /\ ~QueueCleared =>
       \A j \in QueueSlotsWritten :
         gpuCellCountBuffer.pending <= j /\ j < gpuCellCountBuffer'.pending
  /\ pc = "internalRun" /\ QueueSlotsWritten # {} =>
       /\ QueueSlotsWritten = {gpuCellCountBuffer.pending}
       /\ frame.hostQueued <= gpuCellCountBuffer.pending
       /\ gpuCellCountBuffer'.pending = gpuCellCountBuffer.pending + 1
  /\ gpuCellCountBuffer'.pending < gpuCellCountBuffer.pending =>
       (pc = "applyRun" /\ pc' = "idle") \/ QueueCleared

C31_QueueSizing ==
  (/\ pc \in {"internalRun", "apply"}
   /\ frame.hostQueued = 0
   /\ gpuCellCountBuffer.live <= MAX_CELLS) =>
    /\ gpuCellCountBuffer.pending = frame.divisions
    /\ gpuCellCountBuffer.pending <=
         Min(gpuCellCountBuffer.live, MAX_CELLS - gpuCellCountBuffer.live)
    /\ gpuCellCountBuffer.pending <= MAX_CELLS \div 2
    /\ gpuCellCountBuffer.pending <= QueueCapacity

\* The internal stage is over in a frame without ingress that began with
\* MAX_CELLS - 1 live cells: one division was made, and the bound
\* min(liveCount, MAX_CELLS - liveCount) = 1 is attained.
C31_Witness ==
  /\ pc = "apply"
  /\ frame.hostQueued = 0
  /\ gpuCellCountBuffer.live = MAX_CELLS - 1
  /\ gpuCellCountBuffer.pending = 1
  /\ \A i \in InternalThreads :
       cellBuffer[getCellWriteBuffer(bufferRotation)][i].id # 0

\* The cell indices a kernel bound to the index buffer can read from it,
\* whatever elements it addresses.
IndicesInGridBuffer == {At(gridBuffer, n) : n \in 0..(GridBufferSize - 1)}

C33_BarrierBeforeDraw ==
  Rendered =>
    \A d \in EventsOf("draw") :
      \E n \in EventsOf("extract"), b \in EventsOf(Barrier.op) : n < b /\ b < d

\* C34 as stated: after updateCellData(index, d) with an index in range, at
\* every rotation index, the read view and the write view both hold d at
\* that index.
C34_UpdateCellDataReachesViews ==
  \A n \in EventsOf("updateCellData") :
    /\ ReadView[events[n].index] = NewData
    /\ cellBuffer[getCellWriteBuffer(bufferRotation)][events[n].index] = NewData

\* C35 as stated: runCellCounter leaves the device pendingCount and the
\* addition queue as they were, and the staging mirror holds the liveCount
\* it has recomputed.
C35_CounterKeepsPending ==
  [][RunCellCounter =>
       /\ gpuCellCountBuffer'.pending = gpuCellCountBuffer.pending
       /\ cellAdditionBuffer' = cellAdditionBuffer
       /\ stagingCellCountBuffer'.live = gpuCellCountBuffer'.live]_vars

\* C36 as stated: dragSelectedCell and endDrag leave the split timer and the
\* mode index of the dragged cell, in the buffer the simulation wrote them to
\* last (the read view), as they are, also when frames have run since the
\* cell was selected.
C36_DragKeepsInternalState ==
  [][(DragSelectedCell \/ EndDrag) /\ selectedCell.isValid =>
       LET i == selectedCell.cellIndex
       IN /\ TimerOf(ReadView'[i]) = TimerOf(ReadView[i])
          /\ ModeIndexOf(ReadView'[i]) = ModeIndexOf(ReadView[i])]_vars

\* C37 as stated: between frames the host's copy cpuCells holds one record
\* for every live cell and every staged cell, so that every index below the
\* live count is an index of cpuCells.
C37_MirrorSize ==
  pc = "idle" =>
    /\ Len(cpuCells) = cellCount + Len(cellStagingBuffer)
    /\ \A i \in 0..(cellCount - 1) : i + 1 \in DOMAIN cpuCells

\* The buffer that is neither the read view nor the write view at rotation r.
ThirdBuffer(r) == (r + 2) % NumCellBuffers

\* A step of updateCells: the frame is running before it or after it.
InUpdateCells == pc # "idle" \/ pc' # "idle"

ThirdBufferKept ==
  InUpdateCells =>
    cellBuffer'[ThirdBuffer(bufferRotation)] = cellBuffer[ThirdBuffer(bufferRotation)]

\* C38: during updateCells no dispatch has B[(r+2) mod 3] bound and no step
\* changes its contents; the addition apply writes the read view and the
\* write view of the rotation, and no other cell buffer.
C38_ThirdBufferUntouched ==
  /\ [](pc # "idle" =>
          /\ \A n \in 1..Len(events) :
               events[n].op \in DispatchOps =>
                 CellBufferName(ThirdBuffer(bufferRotation)) \notin Range(events[n].bind)
          /\ \A a \in EventsOf("apply") :
               Writes(events[a]) \cap CellBufferNames =
                 {CellBufferName(getCellReadBuffer(bufferRotation)),
                  CellBufferName(getCellWriteBuffer(bufferRotation))})
  /\ [][ThirdBufferKept]_vars

\* The apply of a frame at rotation 1 has admitted a cell into B[1] and B[2],
\* and B[0], which holds the cell of an earlier frame, is not what either
\* view holds.
C38_Witness ==
  /\ pc = "applyRun"
  /\ todo = {}
  /\ admitted # {}
  /\ bufferRotation = 1
  /\ cellBuffer[0][0].id # 0
  /\ cellBuffer[0] # cellBuffer[1]
  /\ cellBuffer[0] # cellBuffer[2]

====
